---- MODULE Spec2Model ----
(***************************************************************************)
(* Model of gh-autopr's transient-workspace manager:                       *)
(*   src/src/git_temp_worktree.rs  (TempWorktree::enter, Drop, patch cache) *)
(*   src/src/git_ops.rs            (workflow git operations and             *)
(*                                  update_original_worktree_to_pr_branch)  *)
(*                                                                         *)
(* The git binary is modelled by what its commands do to the repository:   *)
(* file contents are opaque blobs (0 = the path is absent), a patch is the *)
(* set of (path, pre-image, post-image) entries of a `git diff --binary`,  *)
(* and a commit is the sequence of trees from the root commit to itself,   *)
(* so that ancestry is the prefix order.                                   *)
(***************************************************************************)
EXTENDS Integers, FiniteSets, Sequences, TLC

\* ------------------------------------------------------------------ bounds
MaxContent == 2      \* blobs are 1..MaxContent, 0 is "no file"
MaxTicks == 1        \* how often the clock advances in a behaviour
MaxCommits == 2      \* longest history a branch grows to
MaxPrCalls == 2      \* calls of create_or_update_pull_request in a behaviour
MaxChars == 3        \* longest string given to truncate_utf8, in characters
MaxIssueCalls == 3   \* calls of github_list_issues in a behaviour
MaxDaysOld == 3      \* largest days_old given to cleanup_old_patches

\* ------------------------------------------------------- program constants
MAX_RETRIES == 3
INITIAL_DELAY_MS == 1000
PATCH_REUSE_THRESHOLD_SECS == 10
SecsPerDay == 86400          \* 24 * 60 * 60
MsPerSec == 1000

\* -------------------------------------------------------------- the domain
Paths == {"A", "U"}
Content == 0..MaxContent
Tree == [Paths -> Content]
BaseTree == [p \in Paths |-> IF p = "U" THEN 0 ELSE 1]

Procs == {"p1", "p2"}
BranchNames == {"main", "pr", "heads/main"}
Detached == "HEAD"          \* what `rev-parse --abbrev-ref HEAD` prints when detached
NoCommit == <<>>            \* the ref does not exist
OrigRoot == <<"root">>      \* the original checkout's top-level directory
NoPath == <<>>

\* line 122: git_dir.join(format!("autopr-wt-{}", ts))
WorktreePath(ts) == <<"autopr-wt", ts>>

TipTree(commit) == commit[Len(commit)]

\* the commit a checkout's HEAD resolves to
HeadCommit(c, brs) == IF c.head = Detached THEN c.at ELSE brs[c.head]

\* ---------------------------------------------------------------- patches
\* `git diff --binary` between two trees: one entry per differing path
DiffTrees(from, to) ==
    {[path |-> p, pre |-> from[p], post |-> to[p]] : p \in {q \in Paths : from[q] # to[q]}}

\* `git diff --staged --binary`: index against HEAD
StagedPatch(c, brs) == DiffTrees(TipTree(HeadCommit(c, brs)), c.index)

\* `git diff --binary`: working tree against index, tracked paths only
TrackedDiff(c) ==
    {e \in DiffTrees(c.index, c.wt) : e.pre # 0}

\* `git ls-files --others --exclude-standard`: in the working tree, not in the index
UntrackedList(c) == {p \in Paths : c.index[p] = 0 /\ c.wt[p] # 0}

\* a binary patch applies iff every pre-image is the current content
PatchApplies(patch, tree) == \A e \in patch : tree[e.path] = e.pre

ApplyPatch(patch, tree) ==
    [p \in Paths |-> IF \E e \in patch : e.path = p
                     THEN (CHOOSE e \in patch : e.path = p).post
                     ELSE tree[p]]

VARIABLES
    branches,    \* local branches of the shared repository: name -> commit
    remote,      \* branches on origin: name -> commit
    tracking,    \* the remote-tracking refs origin/<name> of the repository:
                 \* what the last fetch, pull or push saw on origin
    orig,        \* the original checkout: [head, at, index, wt]
    worktrees,   \* registered secondary checkouts: set of [path, co]
    dirs,        \* secondary checkout directories that exist on disk
    patchFiles,  \* .git/gh-autopr-patches: set of [kind, ts, patch]
    now,         \* wall clock, milliseconds
    ticks,       \* number of clock advances so far
    pc,          \* per process: "idle", "active", "torn", "failed", "exited"
    handle,      \* per process: the TempWorktree value it holds (or held last)
    cwd,         \* per process: current directory (OrigRoot or a secondary path)
    enterStatus, \* per process: how its last enter() ended, and at which path
    teardowns,   \* per process: runs of Drop::drop on the handle it holds (or held last)
    stash,       \* refs/stash of the repository: sequence of [index, wt]
    recon,       \* the last update_original_worktree_to_pr_branch call: its result
                 \* and the original checkout and refs it was called on
    dropFailed,  \* when the step just taken was a teardown: the steps of it that
                 \* failed; empty after any other step
    commitResult,\* when the step just taken was a call of git_stage_and_commit:
                 \* "ok" or "err"; "none" after any other step
    tags,        \* the tag names of the repository
    dropIssued,  \* when the step just taken was a teardown: the commands it
                 \* issued, in order; empty after any other step
    gh,          \* GitHub as the gh CLI shows it (the head branches with an
                 \* open pull request) and the last call of
                 \* create_or_update_pull_request: its arguments, the gh
                 \* commands it issued, what it added to app.errors, its result
    trunc,       \* a call of truncate_utf8: the bytes of s, max_bytes, the
                 \* bytes returned
    upstream,    \* branch.<name>.remote and .merge of the repository's config:
                 \* per local branch [remote, branch], remote being "origin",
                 \* "." (a local upstream) or "" (no upstream configured)
    pruned,      \* the last call of prune_merged_branches: the merged pull
                 \* request heads gh listed, whether origin answered, the result
    parentCall,  \* the last call of discover_parent_branch: child and result
    issues,      \* ISSUES_CACHE, the gh invocations of github_list_issues so
                 \* far, and what its last call returned
    retry,       \* a call of retry_with_backoff: what each attempt of the
                 \* operation will return, the attempts made, the delays slept
                 \* (milliseconds), the value returned
    cleaned,     \* the last call of cleanup_old_patches: days_old, the removals
                 \* that failed, the result
    captured     \* when the step just taken was a call of enter(): the caller,
                 \* what the call got from the patch cache, the snapshot and
                 \* untracked list it went on with, and which capture commands
                 \* had failed; NoCapture after any other step

vars == <<branches, remote, tracking, orig, worktrees, dirs, patchFiles, now, ticks,
          pc, handle, cwd, enterStatus, teardowns, stash, recon, dropFailed, captured,
          gh, trunc, dropIssued, tags, commitResult, upstream, pruned, parentCall, issues,
          retry, cleaned>>

\* `git rev-parse --abbrev-ref HEAD`: the shortest unambiguous name of the
\* current branch, which is heads/<branch> when a tag has the branch's name,
\* and HEAD when detached
AbbrevRef(c) == IF c.head = "main" /\ "main" \in tags THEN "heads/main" ELSE c.head

NoRetry == [script |-> <<>>, attempt |-> 0, delays |-> <<>>, result |-> "none"]

NoUpstream == [remote |-> "", branch |-> ""]

NoHandle == [path |-> NoPath, orig_root |-> OrigRoot, orig_branch |-> Detached]

NoCapture == [by |-> "none", reuse |-> [staged |-> {}, unstaged |-> {}],
              snap |-> [staged |-> {}, unstaged |-> {}], untracked |-> {}, fails |-> {}]

RegisteredPaths == {w.path : w \in worktrees}

\* ------------------------------------------------- git commands in a cwd
\* The state a run of git commands works on: the original checkout, the
\* secondary checkout being set up or torn down, the process's directory and
\* the repository's local branches.  A git command acts on the checkout the
\* process's current directory lies in.
CwdCheckout(w) == IF w.cwd = OrigRoot THEN w.orig ELSE w.sec

SetCwdCheckout(w, co) ==
    IF w.cwd = OrigRoot THEN [w EXCEPT !.orig = co] ELSE [w EXCEPT !.sec = co]

\* a checkout freshly placed on a commit: index and working tree are its tree
CheckoutAt(head, commit) ==
    [head |-> head, at |-> IF head = Detached THEN commit ELSE NoCommit,
     index |-> TipTree(commit), wt |-> TipTree(commit)]

ValidBranchName(b) == b # Detached

\* `git switch --force --ignore-other-worktrees <b>`
SwitchForceOk(w, b) == ValidBranchName(b) /\ b \in BranchNames /\ w.brs[b] # NoCommit
SwitchForce(w, b) == SetCwdCheckout(w, CheckoutAt(b, w.brs[b]))

\* `git switch --force --ignore-other-worktrees -c <b> --track origin/<b>`
SwitchTrackOk(w, b) ==
    ValidBranchName(b) /\ b \in BranchNames /\ w.brs[b] = NoCommit /\ w.trk[b] # NoCommit
SwitchTrack(w, b) ==
    SetCwdCheckout([w EXCEPT !.brs[b] = w.trk[b], !.ups[b] = [remote |-> "origin", branch |-> b]],
                   CheckoutAt(b, w.trk[b]))

\* `git switch --force --ignore-other-worktrees -c <b>`: a new branch at HEAD
SwitchCreateOk(w, b) == ValidBranchName(b) /\ b \in BranchNames /\ w.brs[b] = NoCommit
SwitchCreate(w, b) ==
    LET c == HeadCommit(CwdCheckout(w), w.brs)
    IN SetCwdCheckout([w EXCEPT !.brs[b] = c], CheckoutAt(b, c))

\* faulty variant: the patch is applied to the working tree as well
ApplyCachedAndWorktree(w, patch) ==
    SetCwdCheckout(w, [CwdCheckout(w) EXCEPT !.index = ApplyPatch(patch, @),
                                             !.wt = ApplyPatch(patch, @)])

\* `git apply --cached -`: the index only
ApplyCachedOk(w, patch) == PatchApplies(patch, CwdCheckout(w).index)
ApplyCached(w, patch) ==
    SetCwdCheckout(w, [CwdCheckout(w) EXCEPT !.index = ApplyPatch(patch, @)])

\* `git apply -`: the working tree only
ApplyWorktreeOk(w, patch) == PatchApplies(patch, CwdCheckout(w).wt)
ApplyWorktree(w, patch) ==
    SetCwdCheckout(w, [CwdCheckout(w) EXCEPT !.wt = ApplyPatch(patch, @)])

\* ------------------------------------------------------------ patch cache
\* A file name is a sequence of pieces: words, runs of digits, '-' and '.'.
Word(s) == [k |-> s, n |-> 0]
Digits(n) == [k |-> "digits", n |-> n]
Dash == Word("-")
Dot == Word(".")

\* format!("{kind}-{timestamp}.patch")
PatchFileName(kind, ts) == <<Word(kind), Dash, Digits(ts), Dot, Word("patch")>>

\* positions of a piece in a name
Positions(name, piece) == {i \in 1..Len(name) : name[i] = piece}
Least(S) == CHOOSE i \in S : \A j \in S : i <= j

\* path.extension() is "patch": the name ends in '.' and "patch", and that '.'
\* is not its first character
HasPatchExtension(name) ==
    /\ Len(name) >= 3
    /\ name[Len(name) - 1] = Dot
    /\ name[Len(name)] = Word("patch")

\* filename.split('-').nth(1).and_then(|s| s.split('.').next()): the pieces
\* after the first '-', up to the next '-' or '.'
TimestampField(name) ==
    IF Positions(name, Dash) = {} THEN [some |-> FALSE, v |-> <<>>]
    ELSE LET d == Least(Positions(name, Dash))
             stops == {i \in Positions(name, Dash) \cup Positions(name, Dot) : i > d}
             last == IF stops = {} THEN Len(name) ELSE Least(stops) - 1
         IN [some |-> TRUE, v |-> SubSeq(name, d + 1, last)]

\* timestamp_str.parse::<u64>()
ParseTimestamp(name) ==
    LET f == TimestampField(name)
    IN IF f.some /\ Len(f.v) = 1 /\ f.v[1].k = "digits"
       THEN [ok |-> TRUE, ts |-> f.v[1].n]
       ELSE [ok |-> FALSE, ts |-> 0]

\* filename.starts_with("<kind>-")
StartsWith(name, kind) == Len(name) >= 2 /\ name[1] = Word(kind) /\ name[2] = Dash

\* the files that reach the subtraction at line 36
Stamped(pfs) == {f \in pfs : HasPatchExtension(f.name) /\ ParseTimestamp(f.name).ok}

\* faulty variant: the window is open at its far end
FreshPatchesStrict(pfs, nowSecs, kind) ==
    {f \in Stamped(pfs) : /\ ParseTimestamp(f.name).ts <= nowSecs
                          /\ nowSecs - ParseTimestamp(f.name).ts < PATCH_REUSE_THRESHOLD_SECS
                          /\ StartsWith(f.name, kind)}

\* `now - timestamp <= PATCH_REUSE_THRESHOLD_SECS` in u64 arithmetic, where the
\* subtraction returns: for a timestamp after now the difference wraps to a
\* value far above the threshold
FreshPatches(pfs, nowSecs, kind) ==
    {f \in Stamped(pfs) : /\ ParseTimestamp(f.name).ts <= nowSecs
                          /\ nowSecs - ParseTimestamp(f.name).ts <= PATCH_REUSE_THRESHOLD_SECS
                          /\ StartsWith(f.name, kind)}

\* a timestamp after now: `now - timestamp` overflows, which panics in a build
\* with overflow checks and wraps in one without
FutureStamped(pfs, nowSecs) == {f \in Stamped(pfs) : ParseTimestamp(f.name).ts > nowSecs}

NoPatch == {}

\* try_reuse_recent_patches: for each kind the content of a fresh file, the
\* one the directory iteration visits last (any of them), else empty
try_reuse_recent_patches(pfs, nowSecs) ==
    LET pick(kind) == IF FreshPatches(pfs, nowSecs, kind) = {} THEN {NoPatch}
                      ELSE {f.patch : f \in FreshPatches(pfs, nowSecs, kind)}
    IN {[panic |-> FALSE, staged |-> s, unstaged |-> u] :
            s \in pick("staged"), u \in pick("unstaged")}
       \cup (IF FutureStamped(pfs, nowSecs) = {} THEN {}
             ELSE {[panic |-> TRUE, staged |-> NoPatch, unstaged |-> NoPatch]})

\* cleanup_old_patches(days_old).  `now - days_old * 24 * 60 * 60` is u64
\* arithmetic: when the product exceeds now the subtraction overflows, which
\* panics in a build with overflow checks and otherwise (wraps) leaves a
\* cutoff above every timestamp.  fs_err::remove_file fails for the files in
\* `failing`, which is logged as WARN, and the scan goes on.
cleanup_old_patches(days_old) ==
    /\ \E wraps \in BOOLEAN, failing \in SUBSET patchFiles :
         LET nowSecs == now \div MsPerSec
             span == days_old * SecsPerDay
             old == IF span > nowSecs THEN Stamped(patchFiles)
                    ELSE {f \in Stamped(patchFiles) :
                            ParseTimestamp(f.name).ts < nowSecs - span}
             panic == span > nowSecs /\ ~wraps
         IN /\ patchFiles' = IF panic THEN patchFiles ELSE patchFiles \ (old \ failing)
            /\ cleaned' = [turn |-> ~cleaned.turn, days_old |-> days_old,
                           failing |-> failing,
                           result |-> IF panic THEN "panic" ELSE "ok"]
    /\ captured' = NoCapture
    /\ dropFailed' = {}
    /\ dropIssued' = <<>>
    /\ commitResult' = "none"
    /\ UNCHANGED <<upstream, pruned, parentCall, issues, retry, tags, gh, trunc, stash, recon,
                   branches, remote, tracking, orig, worktrees, dirs, now, ticks, pc, handle,
                   cwd, enterStatus, teardowns>>

\* get_unstaged_patch_if_exists: `git diff --quiet`, then `git diff --binary`
get_unstaged_patch_if_exists(c) == IF TrackedDiff(c) # {} THEN TrackedDiff(c) ELSE {}

\* enter() lines 96-109: the cached pair unless both halves are empty
EnterSnapshot(c, brs, reuse, fails) ==
    IF reuse.staged = {} /\ reuse.unstaged = {}
    THEN [staged |-> IF "staged" \in fails THEN NoPatch ELSE StagedPatch(c, brs),
          unstaged |-> IF "unstaged" \in fails THEN NoPatch ELSE get_unstaged_patch_if_exists(c)]
    ELSE [staged |-> reuse.staged, unstaged |-> reuse.unstaged]

\* ------------------------------------------------------ TempWorktree::enter
\* faulty variant: the exit status of `git worktree add` is not looked at
WorktreeAddUnchecked(path, regs, ds) == TRUE

\* `git worktree add --detach <path>` refuses a path that exists or is registered
WorktreeAddOk(path, regs, ds) == path \notin ds /\ path \notin {r.path : r \in regs}

\* faulty variant: enter() stays in the original checkout
EnterChdirSkipped(w, path) == w

\* line 137: std::env::set_current_dir(&path)
EnterChdir(w, path) == [w EXCEPT !.cwd = path]

\* faulty variant: a chain that fails nowhere and stays detached when no
\* attempt succeeds
SwitchChainUnchecked(w, b) ==
    [ok |-> TRUE, w |-> IF SwitchForceOk(w, b) THEN SwitchForce(w, b) ELSE w]

\* lines 146-190: the three switch attempts, first success wins
SwitchChain(w, b) ==
    IF SwitchForceOk(w, b) THEN [ok |-> TRUE, w |-> SwitchForce(w, b)]
    ELSE IF SwitchTrackOk(w, b) THEN [ok |-> TRUE, w |-> SwitchTrack(w, b)]
    ELSE IF SwitchCreateOk(w, b) THEN [ok |-> TRUE, w |-> SwitchCreate(w, b)]
    ELSE [ok |-> FALSE, w |-> w]

\* faulty variant: the first file that cannot be copied ends the copying
CopyUntrackedAborting(w, list, failing) ==
    IF list \cap failing # {} THEN w
    ELSE SetCwdCheckout(w, [CwdCheckout(w) EXCEPT
        !.wt = [p \in Paths |-> IF p \in list /\ w.orig.wt[p] # 0 THEN w.orig.wt[p] ELSE @[p]]])

\* lines 218-255: copy each listed untracked file from orig_root into the cwd;
\* a path in `failing` is one whose source is gone by now, or whose parent
\* directory or copy fails: it is skipped with a warning (`continue`)
CopyUntracked(w, list, failing) ==
    SetCwdCheckout(w, [CwdCheckout(w) EXCEPT
        !.wt = [p \in Paths |-> IF p \in list \ failing /\ w.orig.wt[p] # 0
                                THEN w.orig.wt[p] ELSE @[p]]])

\* What enter() leaves behind when it returns at a failure point after the
\* worktree was added: it returns the error (lines 183-189, 201-203, 213-215)
EnterFail(status, w) == [status |-> status, registered |-> TRUE, w |-> w]

\* faulty variant: the directory is changed before the exit status of
\* `git worktree add` is looked at
EnterRunChdirFirst(w0, path, regs, ds, orig_branch, snap, untracked, failing) ==
    IF ~WorktreeAddOk(path, regs, ds)
    THEN [status |-> "err_add", registered |-> FALSE, w |-> EnterChdir(w0, path)]
    ELSE EnterFail("err_switch",
                   EnterChdir([w0 EXCEPT !.sec = CheckoutAt(Detached, HeadCommit(w0.orig, w0.brs))], path))

\* enter() from `git worktree add` on, as a function of what it captured
EnterRun(w0, path, regs, ds, orig_branch, snap, untracked, failing) ==
    IF ~WorktreeAddOk(path, regs, ds)
    THEN [status |-> "err_add", registered |-> FALSE, w |-> w0]
    ELSE
    LET w1 == EnterChdir([w0 EXCEPT !.sec = CheckoutAt(Detached, HeadCommit(w0.orig, w0.brs))], path)
        sw == SwitchChain(w1, orig_branch)
        w2 == sw.w
        w3 == IF snap.staged # {} THEN ApplyCached(w2, snap.staged) ELSE w2
        w4 == IF snap.unstaged # {} THEN ApplyWorktree(w3, snap.unstaged) ELSE w3
        w5 == CopyUntracked(w4, untracked, failing)
    IN IF ~sw.ok THEN EnterFail("err_switch", w1)
       ELSE IF snap.staged # {} /\ ~ApplyCachedOk(w2, snap.staged) THEN EnterFail("err_staged", w2)
       ELSE IF snap.unstaged # {} /\ ~ApplyWorktreeOk(w3, snap.unstaged) THEN EnterFail("err_unstaged", w3)
       ELSE [status |-> "ok", registered |-> TRUE, w |-> w5]

NoCheckout == [head |-> Detached, at |-> NoCommit, index |-> BaseTree, wt |-> BaseTree]

World(c, sec, dir) ==
    [orig |-> c, sec |-> sec, cwd |-> dir, brs |-> branches, rem |-> remote, trk |-> tracking,
     ups |-> upstream]

\* enter(), in an environment where the sets of capture commands that can fail
\* together are `failures`
EnterCapturing(p, failures) ==
    /\ pc[p] \in {"idle", "torn"}
    /\ \E reuse \in try_reuse_recent_patches(patchFiles, now \div MsPerSec),
          fails \in failures :
         LET path == WorktreePath(now)
             w0 == World(orig, NoCheckout, cwd[p])
             snap == EnterSnapshot(orig, branches, reuse, fails)
             untracked == IF "untracked" \in fails THEN {} ELSE UntrackedList(orig)
             r == IF reuse.panic
                  THEN [status |-> "panic", registered |-> FALSE, w |-> w0]
                  ELSE EnterRun(w0, path, worktrees, dirs, AbbrevRef(orig), snap, untracked, fails)
         IN /\ captured' = [by |-> p,
                             reuse |-> [staged |-> reuse.staged, unstaged |-> reuse.unstaged],
                             snap |-> snap, untracked |-> untracked, fails |-> fails]
            /\ orig' = r.w.orig
            /\ branches' = r.w.brs
            /\ upstream' = r.w.ups
            /\ worktrees' = IF r.registered
                            THEN worktrees \cup {[path |-> path, co |-> r.w.sec]}
                            ELSE worktrees
            /\ dirs' = IF r.registered THEN dirs \cup {path} ELSE dirs
            /\ cwd' = [cwd EXCEPT ![p] = r.w.cwd]
            /\ pc' = [pc EXCEPT ![p] = IF r.status = "ok" THEN "active" ELSE "failed"]
            /\ handle' = [handle EXCEPT ![p] =
                            IF r.status = "ok"
                            THEN [path |-> path, orig_root |-> OrigRoot,
                                  orig_branch |-> AbbrevRef(orig)]
                            ELSE NoHandle]
            /\ enterStatus' = [enterStatus EXCEPT ![p] = [status |-> r.status,
                                 path |-> IF reuse.panic THEN NoPath ELSE path]]
    /\ teardowns' = [teardowns EXCEPT ![p] = 0]
    /\ dropFailed' = {}
    /\ dropIssued' = <<>>
    /\ commitResult' = "none"
    /\ UNCHANGED <<pruned, parentCall, issues, retry, cleaned, tags, gh, trunc, stash, recon, remote, tracking, patchFiles, now, ticks>>

\* enter() where every capture command exits with status 0
Enter(p) == EnterCapturing(p, {{}})

\* enter() where a capture command may exit with another status (enter() reads
\* `.output()?.stdout` and never the status, and the stdout of a git command
\* that failed is empty), or where a listed untracked path cannot be copied
\* (lines 226-253)
EnterUnderFailure(p) == EnterCapturing(p, {{}} \cup {{c} : c \in {"staged", "unstaged", "untracked"}}
                      \cup {{f} : f \in Paths})

\* --------------------------------------------- switching without --force
\* `git switch <b>` / `git checkout <b>`: git's two-way merge of the index.
\* A path on which the current and the target commit differ must be
\* unmodified (or merely deleted from the working tree), or already hold the
\* target's content in the index; otherwise git aborts and changes nothing.
PathCarries(co, from, to, p) ==
    \/ from[p] = to[p]
    \/ co.index[p] = to[p]
    \/ co.index[p] = from[p] /\ co.wt[p] \in {from[p], 0}

CheckoutBranchOk(w, b) ==
    /\ ValidBranchName(b) /\ b \in BranchNames /\ w.brs[b] # NoCommit
    /\ \A p \in Paths :
         PathCarries(CwdCheckout(w), TipTree(HeadCommit(CwdCheckout(w), w.brs)), TipTree(w.brs[b]), p)

CheckoutBranch(w, b) ==
    LET co == CwdCheckout(w)
        from == TipTree(HeadCommit(co, w.brs))
        to == TipTree(w.brs[b])
        moved(p) == from[p] # to[p] /\ co.index[p] # to[p]
    IN SetCwdCheckout(w, [head |-> b, at |-> NoCommit,
                          index |-> [p \in Paths |-> IF moved(p) THEN to[p] ELSE co.index[p]],
                          wt |-> [p \in Paths |-> IF moved(p) THEN to[p] ELSE co.wt[p]]])

\* ------------------------------------------------------ Drop for TempWorktree
\* what teardown removes from: the worktree registry and the directories
\* faulty variant: `git worktree remove` does nothing
WorktreeRemoveSkipped(t, path) == t

\* faulty variant: the directory goes, the registration and the branch it holds
\* stay
WorktreeRemoveDirOnly(t, path) == [t EXCEPT !.ds = @ \ {path}]

\* `git worktree remove --force <path>`: deregisters and deletes the directory
WorktreeRemove(t, path) ==
    IF path \in {r.path : r \in t.regs}
    THEN [regs |-> {r \in t.regs : r.path # path}, ds |-> t.ds \ {path}]
    ELSE t

\* fs_err::remove_dir_all(&self.path)
RemoveDirAll(t, path) == [t EXCEPT !.ds = @ \ {path}]

\* faulty variant: the teardown stays where the workflow left the process
DropChdirSkipped(w, h) == w

\* line 274: std::env::set_current_dir(&self.orig_root)
DropChdir(w, h) == [w EXCEPT !.cwd = h.orig_root]

\* faulty variant: the teardown puts the original checkout back on the tip of
\* orig_branch whatever it holds
DropRestoreResetting(w, h, fails) ==
    [w EXCEPT !.cwd = h.orig_root, !.orig = CheckoutAt(h.orig_branch, w.brs[h.orig_branch])]

\* lines 274-287: back to orig_root, and off a detached HEAD there
DropRestore(w, h, fails) ==
    LET w1 == IF "chdir" \in fails THEN w ELSE DropChdir(w, h)
    IN IF /\ CwdCheckout(w1).head = Detached
          /\ "switch" \notin fails
          /\ CheckoutBranchOk(w1, h.orig_branch)
       THEN CheckoutBranch(w1, h.orig_branch)
       ELSE w1

\* faulty variant: the worktree goes first, the switch comes last and always
DropIssuedSwitchLast(w, h, fails) ==
    <<"chdir", "symbolic-ref", "worktree remove", "remove_dir_all", "switch">>

\* lines 272-295: the commands of the teardown in the order they are issued;
\* none of them depends on the result of another but the switch, which is
\* issued when `git symbolic-ref --quiet HEAD` fails where the process stands
DropIssued(w, h, fails) ==
    LET w1 == IF "chdir" \in fails THEN w ELSE DropChdir(w, h)
    IN <<"chdir", "symbolic-ref">>
       \o (IF CwdCheckout(w1).head = Detached THEN <<"switch">> ELSE <<>>)
       \o <<"worktree remove", "remove_dir_all">>

\* faulty variant: teardown only deletes the directory
DropRemoveDirOnly(t, path, fails) == RemoveDirAll(t, path)

\* faulty variant: a failure of an earlier step ends the teardown
DropRemoveAborting(t, path, fails) ==
    IF fails # {} THEN t ELSE RemoveDirAll(WorktreeRemove(t, path), path)

\* lines 290-294
DropRemove(t, path, fails) ==
    LET t1 == IF "remove" \in fails THEN t ELSE WorktreeRemove(t, path)
    IN IF "rmdir" \in fails THEN t1 ELSE RemoveDirAll(t1, path)

SecOf(path) == IF path \in RegisteredPaths
               THEN (CHOOSE r \in worktrees : r.path = path).co
               ELSE NoCheckout

\* the teardown, in an environment where the sets of steps that can fail
\* together are `failures`
DropFailing(p, failures) ==
    /\ pc[p] = "active"
    /\ \E fails \in failures :
       LET h == handle[p]
           w0 == World(orig, SecOf(h.path), cwd[p])
           \* when the original checkout sits in a stopped rebase (left by the
           \* pull of update_original_worktree_to_pr_branch), `git switch`
           \* refuses to leave it
           w == DropRestore(w0, h, IF recon.result = "ok" /\ orig.head = Detached THEN fails \cup {"switch"} ELSE fails)
           t == DropRemove([regs |-> worktrees, ds |-> dirs], h.path, fails)
       IN /\ dropFailed' = fails
          /\ dropIssued' = DropIssued(w0, h, fails)
          /\ commitResult' = "none"
          /\ orig' = w.orig
          /\ cwd' = [cwd EXCEPT ![p] = w.cwd]
          /\ worktrees' = t.regs
          /\ dirs' = t.ds
    /\ pc' = [pc EXCEPT ![p] = "torn"]
    /\ teardowns' = [teardowns EXCEPT ![p] = @ + 1]
    /\ captured' = NoCapture
    /\ UNCHANGED <<upstream, pruned, parentCall, issues, retry, cleaned, tags, gh, trunc, stash, recon, branches, remote, tracking, patchFiles, now, ticks, handle, enterStatus>>

\* the teardown where every step succeeds
Drop(p) == DropFailing(p, {{}})

\* the teardown where any of its steps may fail: each result is dropped with
\* `let _ =`
DropUnderFailure(p) == DropFailing(p, SUBSET {"chdir", "switch", "remove", "rmdir"})

\* The workflow moves the process between the secondary checkout and the
\* original root while the handle is live, as
\* update_original_worktree_to_pr_branch does at lines 994 and 1173.
WorkflowChdir(p) ==
    /\ pc[p] = "active"
    /\ \E d \in {OrigRoot, handle[p].path} \ {cwd[p]} : cwd' = [cwd EXCEPT ![p] = d]
    /\ captured' = NoCapture
    /\ dropFailed' = {}
    /\ dropIssued' = <<>>
    /\ commitResult' = "none"
    /\ UNCHANGED <<upstream, pruned, parentCall, issues, retry, cleaned, tags, gh, trunc, stash, recon, branches, remote, tracking, orig, worktrees, dirs, patchFiles, now, ticks,
                   pc, handle, enterStatus, teardowns>>

\* ------------------------------------- the workflow inside the secondary checkout
\* the registered checkout at `path` replaced by `co`
SetSec(regs, path, co) ==
    {IF r.path = path THEN [path |-> path, co |-> co] ELSE r : r \in regs}

\* git_checkout_new_branch(branch_name, current_branch, force_reset = false):
\* refuses an existing name, else `git checkout -B <name> <current_branch>`
git_checkout_new_branch(p, name) ==
    /\ pc[p] = "active" /\ cwd[p] = handle[p].path
    /\ LET w == World(orig, SecOf(handle[p].path), cwd[p])
           cur == CwdCheckout(w).head
       IN /\ cur # Detached
          /\ branches[name] = NoCommit
          /\ branches' = [branches EXCEPT ![name] = branches[cur]]
          /\ worktrees' = SetSec(worktrees, handle[p].path, [CwdCheckout(w) EXCEPT !.head = name])
    /\ captured' = NoCapture
    /\ dropFailed' = {}
    /\ dropIssued' = <<>>
    /\ commitResult' = "none"
    /\ UNCHANGED <<upstream, pruned, parentCall, issues, retry, cleaned, tags, gh, trunc, stash, recon, remote, tracking, orig, dirs, patchFiles, now, ticks, pc, handle, cwd,
                   enterStatus, teardowns>>

\* git_has_staged_changes: `git diff --cached --quiet`
git_has_staged_changes(co, brs) == co.index # TipTree(HeadCommit(co, brs))

\* faulty variant: `git add .` whatever is staged
StageEverything(co, brs) == [co EXCEPT !.index = co.wt]

\* git_stage_and_commit: commit the index as it is if anything is staged,
\* else `git add .` first; `git commit` fails when there is nothing to commit
StageForCommit(co, brs) ==
    IF git_has_staged_changes(co, brs) THEN co ELSE [co EXCEPT !.index = co.wt]

git_stage_and_commit(p) ==
    /\ pc[p] = "active" /\ cwd[p] = handle[p].path
    /\ LET co == StageForCommit(SecOf(handle[p].path), branches)
           parent == HeadCommit(co, branches)
       IN /\ co.head # Detached
          /\ IF co.index = TipTree(parent)
             THEN /\ commitResult' = "err"
                  /\ UNCHANGED <<branches, worktrees>>
             ELSE /\ Len(parent) < MaxCommits
                  /\ commitResult' = "ok"
                  /\ branches' = [branches EXCEPT ![co.head] = Append(parent, co.index)]
                  /\ worktrees' = SetSec(worktrees, handle[p].path, co)
    /\ captured' = NoCapture
    /\ dropFailed' = {}
    /\ dropIssued' = <<>>
    /\ UNCHANGED <<upstream, pruned, parentCall, issues, retry, cleaned, tags, gh, trunc, stash, recon, remote, tracking, orig, dirs, patchFiles, now, ticks, pc, handle, cwd,
                   enterStatus, teardowns>>

\* ------------------------------------------------------------ git_fetch_main
\* `git reset --hard HEAD`: index and tracked files back to HEAD; a file that
\* is neither in HEAD nor in the index is untracked and stays
ResetHard(co, brs) ==
    LET h == TipTree(HeadCommit(co, brs))
    IN [co EXCEPT !.index = h,
                  !.wt = [p \in Paths |-> IF h[p] # 0 \/ co.index[p] # 0 THEN h[p] ELSE co.wt[p]]]

\* apply_patch_with_directory_creation: try, retry, and on failure only warn.
\* `git apply --cached --3way <file>`: the index only; an entry whose
\* post-image is already there merges cleanly.
\* `git apply --3way <file>`: --3way implies --index, so the patch must match
\* the index, the file must be unmodified (or missing), and both are updated
apply_patch_with_directory_creation(co, patch, is_staged) ==
    IF is_staged
    THEN IF \A e \in patch : co.index[e.path] \in {e.pre, e.post}
         THEN [co EXCEPT !.index = ApplyPatch(patch, @)]
         ELSE co
    ELSE IF \A e \in patch : co.index[e.path] = e.pre /\ co.wt[e.path] \in {e.pre, 0}
         THEN [co EXCEPT !.index = ApplyPatch(patch, @), !.wt = ApplyPatch(patch, @)]
         ELSE co

\* faulty variant: nothing is written
WritePatchFileSkipped(pfs, kind, ts, patch) == pfs

\* fs_err::write(patches_dir.join("<kind>-<timestamp>.patch"), bytes), for
\* non-empty bytes only
WritePatchFile(pfs, kind, ts, patch) ==
    IF patch = {} THEN pfs
    ELSE {f \in pfs : f.name # PatchFileName(kind, ts)}
         \cup {[name |-> PatchFileName(kind, ts), patch |-> patch]}

\* lines 532-627: on the main branch with staged changes
FetchMainStaged(co, brs, pullOk) ==
    LET staged == StagedPatch(co, brs)
        unstaged == get_unstaged_patch_if_exists(co)
        reset == ResetHard(co, brs)
        re1 == IF staged # {} THEN apply_patch_with_directory_creation(reset, staged, TRUE) ELSE reset
        re2 == IF unstaged # {} THEN apply_patch_with_directory_creation(re1, unstaged, FALSE) ELSE re1
    IN [staged |-> staged, unstaged |-> unstaged, co |-> IF pullOk THEN re2 ELSE reset]

\* git_fetch_main(current_branch, main_branch), called with the current branch
\* of the original checkout before any workspace is entered; pullOk is whether
\* the network command (`git pull origin` / `git fetch origin main:main`)
\* succeeds.  Origin's main never moves here, so a pull leaves HEAD where it is.
git_fetch_main(p) ==
    /\ pc[p] = "idle"
    /\ \E pullOk \in BOOLEAN :
         /\ IF AbbrevRef(orig) = "main" /\ git_has_staged_changes(orig, branches)
            THEN LET r == FetchMainStaged(orig, branches, pullOk)
                     ts == now \div MsPerSec
                 IN /\ patchFiles' = WritePatchFile(WritePatchFile(patchFiles, "staged", ts, r.staged),
                                                    "unstaged", ts, r.unstaged)
                    /\ orig' = r.co
            ELSE UNCHANGED <<gh, trunc, patchFiles, orig>>
         /\ pc' = [pc EXCEPT ![p] = IF pullOk THEN "idle" ELSE "failed"]
    /\ captured' = NoCapture
    /\ dropFailed' = {}
    /\ dropIssued' = <<>>
    /\ commitResult' = "none"
    /\ UNCHANGED <<upstream, pruned, parentCall, issues, retry, cleaned, tags, gh, trunc, stash, recon, branches, remote, tracking, worktrees, dirs, now, ticks, handle, cwd,
                   enterStatus, teardowns>>

\* ------------------------------------------------------------ git_push_branch
IsPrefix(a, b) == Len(a) <= Len(b) /\ \A i \in 1..Len(a) : a[i] = b[i]

\* the components, between '/', of a branch's short name
RefName(b) == IF b = "heads/main" THEN <<"heads", "main">> ELSE <<b>>

\* `git rev-parse --abbrev-ref <b>@{upstream}` exits with status 0: <b> exists,
\* has an upstream configured, and the ref the upstream names exists
HasUpstream(brs, trk, ups, b) ==
    /\ b \in BranchNames /\ brs[b] # NoCommit
    /\ ups[b].remote # ""
    /\ IF ups[b].remote = "origin" THEN trk[ups[b].branch] # NoCommit
       ELSE brs[ups[b].branch] # NoCommit

\* the short name of an upstream, as `--abbrev-ref` and `git branch -vv` print
\* it: origin/<branch> or <branch>
UpstreamAbbrev(u) ==
    (IF u.remote = "origin" THEN <<"origin">> ELSE <<>>) \o RefName(u.branch)

\* `git push [--set-upstream] origin <branch_name>`: a fast-forward of origin's
\* branch, or its creation; anything else is rejected and is the Err
git_push_branch(p, branch_name) ==
    /\ pc[p] = "active" /\ cwd[p] = handle[p].path
    /\ \E net \in BOOLEAN :
         IF /\ net /\ branches[branch_name] # NoCommit
            /\ \/ remote[branch_name] = NoCommit
               \/ IsPrefix(remote[branch_name], branches[branch_name])
         THEN /\ remote' = [remote EXCEPT ![branch_name] = branches[branch_name]]
              /\ tracking' = [tracking EXCEPT ![branch_name] = branches[branch_name]]
              /\ upstream' = IF HasUpstream(branches, tracking, upstream, branch_name)
                             THEN upstream
                             ELSE [upstream EXCEPT ![branch_name] =
                                     [remote |-> "origin", branch |-> branch_name]]
         ELSE UNCHANGED <<remote, tracking, upstream>>
    /\ captured' = NoCapture
    /\ dropFailed' = {}
    /\ dropIssued' = <<>>
    /\ commitResult' = "none"
    /\ UNCHANGED <<pruned, parentCall, issues, retry, cleaned, tags, gh, trunc, stash, recon, branches, orig, worktrees, dirs, patchFiles, now, ticks,
                   pc, handle, cwd, enterStatus, teardowns>>

\* ------------------------------------- update_original_worktree_to_pr_branch
\* `git status --porcelain` prints something: staged, unstaged or untracked
HasLocalChanges(co, brs) ==
    co.index # TipTree(HeadCommit(co, brs)) \/ co.wt # co.index

\* `git stash push -m ...`: index and tracked files go to a stash entry and the
\* checkout is reset to HEAD; untracked files are neither saved nor removed,
\* and with nothing but untracked files there is "No local changes to save"
StashPush(co, brs, st) ==
    IF git_has_staged_changes(co, brs) \/ TrackedDiff(co) # {}
    THEN [co |-> ResetHard(co, brs),
          st |-> Append(st, [index |-> co.index,
                             wt |-> [q \in Paths |-> IF co.index[q] # 0 THEN co.wt[q] ELSE 0]])]
    ELSE [co |-> co, st |-> st]

\* git refuses to check out a branch that a registered worktree holds
BranchHeldBy(regs, b) == \E r \in regs : r.co.head = b

\* `git checkout <pr_branch>` in the original checkout
GitCheckoutOk(w, regs, b) == ~BranchHeldBy(regs, b) /\ CheckoutBranchOk(w, b)

\* `git fetch origin <b>:<b>` when no local <b> exists
FetchBranchOk(w, b, net) == net /\ w.rem[b] # NoCommit
FetchBranch(w, b) == [w EXCEPT !.brs[b] = w.rem[b], !.trk[b] = w.rem[b]]

\* `git checkout -b <b> origin/<b>`: from the remote-tracking ref, which may
\* be behind origin or name a branch origin no longer has
CheckoutTrackOk(w, b) ==
    /\ w.trk[b] # NoCommit
    /\ CheckoutBranchOk([w EXCEPT !.brs[b] = w.trk[b]], b)
CheckoutTrack(w, b) ==
    CheckoutBranch([w EXCEPT !.brs[b] = w.trk[b], !.ups[b] = [remote |-> "origin", branch |-> b]], b)

\* number of leading commits two histories share
ForkLen(a, b) ==
    CHOOSE n \in 0..Len(a) :
        /\ n <= Len(b)
        /\ \A i \in 1..n : a[i] = b[i]
        /\ (n = Len(a) \/ n = Len(b) \/ a[n + 1] # b[n + 1])

\* the checkout moved from tree `from` to tree `to`, local content carried
CarryTo(co, from, to) ==
    LET moved(q) == from[q] # to[q] /\ co.index[q] # to[q]
    IN [co EXCEPT !.index = [q \in Paths |-> IF moved(q) THEN to[q] ELSE co.index[q]],
                  !.wt = [q \in Paths |-> IF moved(q) THEN to[q] ELSE co.wt[q]]]

\* git rebase: the local commits from position i on replayed on `chain`; a
\* change upstream already has is dropped, a change to a blob upstream also
\* changed stops the rebase
RECURSIVE RebaseFrom(_, _, _)
RebaseFrom(local, i, chain) ==
    IF i > Len(local)
    THEN [ok |-> TRUE, chain |-> chain]
    ELSE LET patch == {e \in DiffTrees(local[i - 1], local[i]) :
                          TipTree(chain)[e.path] # e.post}
         IN IF ~PatchApplies(patch, TipTree(chain))
            THEN [ok |-> FALSE, chain |-> chain]
            ELSE RebaseFrom(local, i + 1,
                            IF patch = {} THEN chain
                            ELSE Append(chain, ApplyPatch(patch, TipTree(chain))))

CarriesAll(co, from, to) == \A q \in Paths : PathCarries(co, from, to, q)

\* `git pull --rebase origin <b>` and, when its stderr names a rebase or a
\* conflict, `git pull origin <b>`; every failure is only logged.  Tracked
\* local changes make the rebase refuse to start; they are present here only
\* right after <b> was fetched or created from origin/<b>, where the fallback
\* pull finds nothing to do.
PullRebase(w, b, net) ==
    LET co == w.orig
        local == w.brs[b]
        up == w.rem[b]
        n == ForkLen(local, up)
        \* the fetch of the pull moves origin/<b>
        wf == [w EXCEPT !.trk[b] = up]
    IN IF ~net \/ up = NoCommit THEN w
       ELSE IF n = Len(up) THEN wf
       ELSE IF ~CarriesAll(co, TipTree(local), TipTree(up)) THEN wf
       ELSE IF n = Len(local)
       THEN [wf EXCEPT !.brs[b] = up, !.orig = CarryTo(co, TipTree(local), TipTree(up))]
       ELSE LET r == RebaseFrom(local, n + 1, up)
                co1 == CarryTo(co, TipTree(local), TipTree(r.chain))
            IN IF r.ok
               THEN [wf EXCEPT !.brs[b] = r.chain, !.orig = co1]
               \* stopped rebase: HEAD detached on the commits replayed so far;
               \* `git pull origin <b>` then fails on the unmerged files
               ELSE [wf EXCEPT !.orig = [co1 EXCEPT !.head = Detached, !.at = r.chain]]

ReconDone(result, w, st) == [result |-> result, w |-> w, st |-> st]

\* the closure at lines 996-1170, run with the original checkout as cwd
UpdateRun(w0, regs, st, pr_branch, netFetch, netPull) ==
    IF w0.brs[pr_branch] # NoCommit
    THEN LET s == IF HasLocalChanges(w0.orig, w0.brs)
                  THEN StashPush(w0.orig, w0.brs, st)
                  ELSE [co |-> w0.orig, st |-> st]
             w1 == [w0 EXCEPT !.orig = s.co]
         IN IF GitCheckoutOk(w1, regs, pr_branch)
            THEN ReconDone("ok", PullRebase(CheckoutBranch(w1, pr_branch), pr_branch, netPull), s.st)
            ELSE ReconDone("err", w1, s.st)
    ELSE IF FetchBranchOk(w0, pr_branch, netFetch)
    THEN LET w1 == FetchBranch(w0, pr_branch)
         IN IF GitCheckoutOk(w1, regs, pr_branch)
            THEN ReconDone("ok", PullRebase(CheckoutBranch(w1, pr_branch), pr_branch, netPull), st)
            ELSE ReconDone("err", w1, st)
    ELSE IF CheckoutTrackOk(w0, pr_branch)
    THEN ReconDone("ok", PullRebase(CheckoutTrack(w0, pr_branch), pr_branch, netPull), st)
    ELSE ReconDone("err", w0, st)

NoRecon == [result |-> "none", before |-> NoCheckout,
            brs |-> [b \in BranchNames |-> NoCommit],
            rem |-> [b \in BranchNames |-> NoCommit], regs |-> {}]

update_original_worktree_to_pr_branch(p, pr_branch) ==
    /\ pc[p] \in {"idle", "active", "torn"}
    /\ recon.result = "none"
    /\ \E netFetch \in BOOLEAN, netPull \in BOOLEAN :
         LET r == UpdateRun(World(orig, NoCheckout, OrigRoot), worktrees, stash,
                            pr_branch, netFetch, netPull)
         IN /\ orig' = r.w.orig
            /\ branches' = r.w.brs
            /\ upstream' = r.w.ups
            /\ tracking' = r.w.trk
            /\ stash' = r.st
            /\ recon' = [result |-> r.result, before |-> orig,
                         brs |-> branches, rem |-> remote, regs |-> worktrees]
    /\ captured' = NoCapture
    /\ dropFailed' = {}
    /\ dropIssued' = <<>>
    /\ commitResult' = "none"
    /\ UNCHANGED <<pruned, parentCall, issues, retry, cleaned, tags, gh, trunc, remote, worktrees, dirs, patchFiles, now, ticks, pc, handle, cwd,
                   enterStatus, teardowns>>

\* a collaborator pushes one more commit, a change of file A, to the PR
\* branch on origin; origin's history only grows
RemotePush ==
    /\ remote["pr"] # NoCommit
    /\ Len(remote["pr"]) < MaxCommits
    /\ \E c \in Content \ {TipTree(remote["pr"])["A"]} :
         remote' = [remote EXCEPT
                      !["pr"] = Append(@, [TipTree(remote["pr"]) EXCEPT !["A"] = c])]
    /\ captured' = NoCapture
    /\ dropFailed' = {}
    /\ dropIssued' = <<>>
    /\ commitResult' = "none"
    /\ UNCHANGED <<upstream, pruned, parentCall, issues, retry, cleaned, tags, gh, trunc, tracking, stash, recon, branches, orig, worktrees, dirs, patchFiles, now, ticks,
                   pc, handle, cwd, enterStatus, teardowns>>

\* ------------------------------------------------------------- environment
\* SIGINT / SIGTERM with the default disposition, or std::process::exit: the
\* process ends without unwinding, so no destructor runs
Interrupt(p) ==
    /\ pc[p] = "active"
    /\ pc' = [pc EXCEPT ![p] = "exited"]
    /\ captured' = NoCapture
    /\ dropFailed' = {}
    /\ dropIssued' = <<>>
    /\ commitResult' = "none"
    /\ UNCHANGED <<upstream, pruned, parentCall, issues, retry, cleaned, tags, gh, trunc, stash, recon, branches, remote, tracking, orig, worktrees, dirs, patchFiles, now, ticks,
                   handle, cwd, enterStatus, teardowns>>

Tick ==
    /\ ticks < MaxTicks
    /\ \E d \in {1, (PATCH_REUSE_THRESHOLD_SECS + 1) * MsPerSec} : now' = now + d
    /\ ticks' = ticks + 1
    /\ captured' = NoCapture
    /\ dropFailed' = {}
    /\ dropIssued' = <<>>
    /\ commitResult' = "none"
    /\ UNCHANGED <<upstream, pruned, parentCall, issues, retry, cleaned, tags, gh, trunc, stash, recon, branches, remote, tracking, orig, worktrees, dirs, patchFiles, pc, handle, cwd,
                   enterStatus, teardowns>>

\* ------------------------------------------------------------ specification
\* the commit of a PR branch that exists before the tool runs
PrTree == [BaseTree EXCEPT !["A"] = MaxContent]

\* no handle exists and nothing of the tool has run
\* ------------------------------------------------ the pull request (gh CLI)
\* how a `Command::new("gh")...output()` can end: the program cannot be
\* started, it exits non-zero, it exits zero; `gh pr list` can also print
\* bytes that are no UTF-8
GhOutcomes == {"spawn_failed", "exit_nonzero", "ok"}

\* what `gh pr list --state open --head <b>` prints, trimmed
ListStdout(open, b, outcome) ==
    IF outcome # "ok" THEN {""}
    ELSE IF b \in open THEN {"listing"} ELSE {"", "no pull requests match your search"}

\* lines 907-908
PrExists(outcome, s) ==
    outcome = "ok" /\ ~(s = "" \/ s = "no pull requests match your search")

\* one of `gh pr edit` / `gh pr create` and the `gh pr view` that follows it,
\* whose exit status is not an error: lines 912-973
PrCommand(cmd, outcome, env) ==
    LET issued == <<"list", cmd>>
    IN IF outcome = "spawn_failed" THEN [issued |-> issued, added |-> 0, result |-> "err"]
       ELSE IF outcome = "exit_nonzero" THEN [issued |-> issued, added |-> 1, result |-> "err"]
       ELSE [issued |-> Append(issued, "view"), added |-> 0,
             result |-> IF env.view = "spawn_failed" THEN "err" ELSE "ok"]

\* create_or_update_pull_request, lines 901-973, in an environment where the
\* gh commands end as `env` says and `gh pr list` prints s; `gh pr create`
\* refuses a head branch that has an open pull request
PrRun(open, update_pr, current_branch, env, s) ==
    IF env.list \in {"spawn_failed", "bad_utf8"}
    THEN [issued |-> <<"list">>, added |-> 0, result |-> "err"]
    ELSE IF update_pr /\ PrExists(env.list, s)
    THEN PrCommand("edit", env.edit, env)
    ELSE IF update_pr
    THEN [issued |-> <<"list">>, added |-> 1, result |-> "err"]
    ELSE PrCommand("create",
                   IF env.create = "ok" /\ current_branch \in open
                   THEN "exit_nonzero" ELSE env.create,
                   env)

NoPullRequest ==
    [open |-> {}, calls |-> 0, update_pr |-> FALSE, ready |-> FALSE, head |-> "none",
     list |-> "none",
     issued |-> <<>>, added |-> 0, result |-> "none"]

create_or_update_pull_request(update_pr, ready, current_branch) ==
    /\ gh.calls < MaxPrCalls
    /\ \E env \in [list : GhOutcomes \cup {"bad_utf8"}, edit : GhOutcomes, create : GhOutcomes, view : GhOutcomes] :
       \E s \in ListStdout(gh.open, current_branch, env.list) :
         LET r == PrRun(gh.open, update_pr, current_branch, env, s)
         IN gh' = [open |-> IF r.issued[Len(r.issued)] = "view" /\ r.issued[2] = "create"
                            THEN gh.open \cup {current_branch} ELSE gh.open,
                   calls |-> gh.calls + 1, update_pr |-> update_pr, ready |-> ready,
                   head |-> current_branch,
                   list |-> env.list, issued |-> r.issued, added |-> r.added,
                   result |-> r.result]
    /\ captured' = NoCapture
    /\ dropFailed' = {}
    /\ dropIssued' = <<>>
    /\ commitResult' = "none"
    /\ UNCHANGED <<upstream, pruned, parentCall, issues, retry, cleaned, tags, trunc, stash, recon, branches, remote, tracking, orig, worktrees, dirs,
                   patchFiles, now, ticks, pc, handle, cwd, enterStatus, teardowns>>

\* the pull request of a head branch is merged or closed on GitHub
PullRequestClosed(b) ==
    /\ b \in gh.open
    /\ gh' = [gh EXCEPT !.open = @ \ {b}]
    /\ captured' = NoCapture
    /\ dropFailed' = {}
    /\ dropIssued' = <<>>
    /\ commitResult' = "none"
    /\ UNCHANGED <<upstream, pruned, parentCall, issues, retry, cleaned, tags, trunc, stash, recon, branches, remote, tracking, orig, worktrees, dirs,
                   patchFiles, now, ticks, pc, handle, cwd, enterStatus, teardowns>>

\* ------------------------------------------------------- github_list_issues
\* faulty variant: a listing is returned but not kept
github_list_issues_forgetful ==
    /\ issues.calls < MaxIssueCalls
    /\ \E outcome \in {"spawn", "disabled", "failed", "not utf8", "[]", "[1]", "[1,2]"} :
         issues' =
           IF issues.cache # "none"
           THEN [issues EXCEPT !.calls = @ + 1, !.result = [ok |-> TRUE, value |-> issues.cache]]
           ELSE [calls |-> issues.calls + 1, invocations |-> issues.invocations + 1,
                 cache |-> IF outcome = "disabled" THEN "[]" ELSE "none",
                 result |-> IF outcome = "disabled" THEN [ok |-> TRUE, value |-> "[]"]
                            ELSE IF outcome \in {"spawn", "failed", "not utf8"}
                                 THEN [ok |-> FALSE, value |-> ""]
                                 ELSE [ok |-> TRUE, value |-> outcome]]
    /\ captured' = NoCapture
    /\ dropFailed' = {}
    /\ dropIssued' = <<>>
    /\ commitResult' = "none"
    /\ UNCHANGED <<upstream, pruned, parentCall, retry, cleaned, tags, gh, trunc, stash, recon,
                   branches, remote, tracking, orig, worktrees, dirs, patchFiles, now, ticks,
                   pc, handle, cwd, enterStatus, teardowns>>

\* github_list_issues.  What `gh issue list --json ...` does when it is run:
\* it cannot be started ("spawn"), exits with a failure whose stderr says the
\* repository "has disabled issues" or with another failure, prints bytes that
\* are not UTF-8, or prints the listing, which changes as issues are filed.
github_list_issues ==
    /\ issues.calls < MaxIssueCalls
    /\ \E outcome \in {"spawn", "disabled", "failed", "not utf8", "[]", "[1]", "[1,2]"} :
         issues' =
           IF issues.cache # "none"
           THEN [issues EXCEPT !.calls = @ + 1, !.result = [ok |-> TRUE, value |-> issues.cache]]
           ELSE IF outcome \in {"spawn", "failed", "not utf8"}
                THEN [issues EXCEPT !.calls = @ + 1, !.invocations = @ + 1,
                                    !.result = [ok |-> FALSE, value |-> ""]]
                ELSE LET listing == IF outcome = "disabled" THEN "[]" ELSE outcome
                     IN [calls |-> issues.calls + 1, invocations |-> issues.invocations + 1,
                         cache |-> listing, result |-> [ok |-> TRUE, value |-> listing]]
    /\ captured' = NoCapture
    /\ dropFailed' = {}
    /\ dropIssued' = <<>>
    /\ commitResult' = "none"
    /\ UNCHANGED <<upstream, pruned, parentCall, retry, cleaned, tags, gh, trunc, stash, recon,
                   branches, remote, tracking, orig, worktrees, dirs, patchFiles, now, ticks,
                   pc, handle, cwd, enterStatus, teardowns>>

\* -------------------------------------------------------- retry_with_backoff
\* faulty variant: the delay does not grow
retry_without_backoff ==
    /\ retry.script # <<>> /\ retry.result = "none"
    /\ LET attempt == retry.attempt + 1
           outcome == retry.script[attempt]
       IN retry' =
            IF outcome \in {"ok a", "ok b"} \/ attempt = MAX_RETRIES
            THEN [retry EXCEPT !.attempt = attempt, !.result = outcome]
            ELSE [retry EXCEPT !.attempt = attempt,
                               !.delays = Append(@, INITIAL_DELAY_MS)]
    /\ UNCHANGED <<branches, remote, tracking, orig, worktrees, dirs, patchFiles, now, ticks,
                   pc, handle, cwd, enterStatus, teardowns, stash, recon, dropFailed,
                   captured, gh, trunc, dropIssued, tags, commitResult, upstream, pruned,
                   parentCall, issues, cleaned>>

\* One turn of the loop of retry_with_backoff: operation().await, and after an
\* Err that is not the last attempt's, the sleep before the next attempt.
\* retry.script is what the operation returns at each attempt.
retry_with_backoff ==
    /\ retry.script # <<>> /\ retry.result = "none"
    /\ LET attempt == retry.attempt + 1
           outcome == retry.script[attempt]
       IN retry' =
            IF outcome \in {"ok a", "ok b"} \/ attempt = MAX_RETRIES
            THEN [retry EXCEPT !.attempt = attempt, !.result = outcome]
            ELSE [retry EXCEPT !.attempt = attempt,
                               !.delays = Append(@, INITIAL_DELAY_MS * 2 ^ (attempt - 1))]
    /\ UNCHANGED <<branches, remote, tracking, orig, worktrees, dirs, patchFiles, now, ticks,
                   pc, handle, cwd, enterStatus, teardowns, stash, recon, dropFailed,
                   captured, gh, trunc, dropIssued, tags, commitResult, upstream, pruned,
                   parentCall, issues, cleaned>>

\* ------------------------------------------------------------ truncate_utf8
\* A str is its UTF-8 bytes; a byte is known by the character it belongs to
\* and its place in that character's encoding (k = 1 is the leading byte).
\* The characters are one of each encoded length.
Utf8Len == [a |-> 1, eacute |-> 2, euro |-> 3, emoji |-> 4]

RECURSIVE Bytes(_)
Bytes(chars) ==
    IF chars = <<>> THEN <<>>
    ELSE [k \in 1..Utf8Len[Head(chars)] |-> [ch |-> Head(chars), k |-> k]] \o Bytes(Tail(chars))

RECURSIVE StrsUpTo(_)
StrsUpTo(n) ==
    IF n = 0 THEN {<<>>}
    ELSE LET shorter == StrsUpTo(n - 1)
         IN shorter \cup {Append(s, c) : s \in shorter, c \in DOMAIN Utf8Len}

\* faulty variant: every index counts as a boundary
EveryIndexIsBoundary(s, index) == TRUE

\* str::is_char_boundary
is_char_boundary(s, index) ==
    \/ index = 0
    \/ index = Len(s)
    \/ index < Len(s) /\ s[index + 1].k = 1

\* lines 112-115: back up to a char boundary
RECURSIVE BackUp(_, _)
BackUp(s, end) == IF is_char_boundary(s, end) THEN end ELSE BackUp(s, end - 1)

truncate_utf8(s, max_bytes) ==
    IF Len(s) <= max_bytes THEN s ELSE SubSeq(s, 1, BackUp(s, max_bytes))

NoTruncation == [s |-> <<>>, max_bytes |-> 0, out |-> <<>>, done |-> FALSE]

truncate_utf8_call ==
    /\ ~trunc.done
    /\ trunc' = [trunc EXCEPT !.out = truncate_utf8(trunc.s, trunc.max_bytes), !.done = TRUE]
    /\ captured' = NoCapture
    /\ dropFailed' = {}
    /\ dropIssued' = <<>>
    /\ commitResult' = "none"
    /\ UNCHANGED <<upstream, pruned, parentCall, issues, retry, cleaned, tags, gh, stash, recon, branches, remote, tracking, orig, worktrees, dirs,
                   patchFiles, now, ticks, pc, handle, cwd, enterStatus, teardowns>>

\* ---------------------------------------------------- prune_merged_branches
\* remote_branch_exists: `git ls-remote --exit-code origin <remote_branch>`
\* exits with 0 when a ref of origin matches the pattern, that is when the
\* ref's name ends with the pattern's components, with 2 when no ref matches,
\* and with another status when origin cannot be reached; the function
\* returns Ok(status.success())
remote_branch_exists(rem, remote_branch, net) ==
    /\ net
    /\ \E b \in BranchNames :
         /\ rem[b] # NoCommit
         /\ LET ref == <<"refs", "heads">> \o RefName(b)
                n == Len(remote_branch)
            IN n <= Len(ref) /\ SubSeq(ref, Len(ref) - n + 1, Len(ref)) = remote_branch

\* prune_merged_branches, run in the original checkout.  `merged` are the head
\* branches of the merged pull requests `gh pr list --state merged` prints,
\* ghOk whether that command succeeds, net whether origin can be reached.
\* `git branch -vv` lists a branch held by another checkout under the name
\* "+", and `git branch -D` refuses a branch some checkout is on.
prune_merged_branches(p) ==
    /\ cwd[p] = OrigRoot
    /\ \E merged \in SUBSET BranchNames, ghOk \in BOOLEAN, net \in BOOLEAN :
         LET current_branch == AbbrevRef(orig)
             main_branch == "main"
             held == {orig.head} \cup {r.co.head : r \in worktrees}
             doomed == {b \in BranchNames \ {current_branch, main_branch} :
                          /\ branches[b] # NoCommit
                          /\ \/ b \in merged
                             \/ /\ upstream[b].remote # ""
                                /\ ~remote_branch_exists(remote, UpstreamAbbrev(upstream[b]), net)}
             deleted == doomed \ held
         IN IF ghOk
            THEN /\ branches' = [b \in BranchNames |->
                                   IF b \in deleted THEN NoCommit ELSE branches[b]]
                 /\ upstream' = [b \in BranchNames |->
                                   IF b \in deleted THEN NoUpstream ELSE upstream[b]]
                 /\ pruned' = [turn |-> ~pruned.turn, merged |-> merged, net |-> net,
                               result |-> "ok"]
            ELSE /\ pruned' = [turn |-> ~pruned.turn, merged |-> {}, net |-> net,
                               result |-> "err"]
                 /\ UNCHANGED <<branches, upstream>>
    /\ captured' = NoCapture
    /\ dropFailed' = {}
    /\ dropIssued' = <<>>
    /\ commitResult' = "none"
    /\ UNCHANGED <<parentCall, issues, retry, cleaned, tags, gh, trunc, stash, recon, remote,
                   tracking, orig, worktrees, dirs, patchFiles, now, ticks, pc, handle, cwd,
                   enterStatus, teardowns>>

\* --------------------------------------------------- discover_parent_branch
\* faulty variant: no upstream is ever found
UpstreamUnknown(brs, trk, ups, branch) == <<>>

\* upstream_of: the short name of the upstream with every leading "origin/"
\* removed (trim_start_matches), None (<<>>) when rev-parse fails
upstream_of(brs, trk, ups, branch) ==
    LET Strip[s \in Seq({"origin", "heads", "main", "pr"})] ==
            IF s # <<>> /\ Head(s) = "origin" THEN Strip[Tail(s)] ELSE s
    IN IF HasUpstream(brs, trk, ups, branch) THEN Strip[UpstreamAbbrev(ups[branch])]
       ELSE <<>>

\* discover_parent_branch(main_branch, child).  for_each_local_ref lists the
\* local branches sorted by name; `git merge-base --is-ancestor` holds of a
\* branch whose history is a prefix of child's; commit_distance counts the
\* commits of child past it; of equally near candidates the first listed stays
discover_parent_branch(brs, trk, ups, main_branch, child) ==
    LET up == upstream_of(brs, trk, ups, child)
        local_branches == SelectSeq(<<"heads/main", "main", "pr">>,
                                    LAMBDA b : brs[b] # NoCommit)
        anc == {i \in 1..Len(local_branches) :
                  /\ local_branches[i] # child
                  /\ child \in BranchNames /\ brs[child] # NoCommit
                  /\ IsPrefix(brs[local_branches[i]], brs[child])}
        dist(i) == Len(brs[child]) - Len(brs[local_branches[i]])
    IN IF child = main_branch THEN RefName(main_branch)
       ELSE IF up # <<>> /\ up # RefName(main_branch) THEN up
       ELSE IF anc # {}
            THEN RefName(local_branches[
                     CHOOSE i \in anc : \A j \in anc :
                         dist(i) < dist(j) \/ (dist(i) = dist(j) /\ i <= j)])
            ELSE RefName(main_branch)

discover_parent_branch_call(child) ==
    /\ parentCall' = [turn |-> ~parentCall.turn, child |-> child,
                  result |-> discover_parent_branch(branches, tracking, upstream, "main", child)]
    /\ captured' = NoCapture
    /\ dropFailed' = {}
    /\ dropIssued' = <<>>
    /\ commitResult' = "none"
    /\ UNCHANGED <<upstream, pruned, issues, retry, cleaned, tags, gh, trunc, stash, recon,
                   branches, remote, tracking, orig, worktrees, dirs, patchFiles, now, ticks,
                   pc, handle, cwd, enterStatus, teardowns>>

InitTool ==
    /\ worktrees = {}
    /\ dirs = {}
    /\ ticks = 0
    /\ pc = [p \in Procs |-> "idle"]
    /\ handle = [p \in Procs |-> NoHandle]
    /\ cwd = [p \in Procs |-> OrigRoot]
    /\ enterStatus = [p \in Procs |-> [status |-> "none", path |-> NoPath]]
    /\ teardowns = [p \in Procs |-> 0]
    /\ stash = <<>>
    /\ recon = NoRecon
    /\ captured = NoCapture
    /\ dropFailed = {}
    /\ dropIssued = <<>>
    /\ commitResult = "none"
    /\ gh = NoPullRequest
    /\ pruned = [turn |-> FALSE, merged |-> {}, net |-> TRUE, result |-> "none"]
    /\ parentCall = [turn |-> FALSE, child |-> "main", result |-> <<>>]
    /\ issues = [calls |-> 0, invocations |-> 0, cache |-> "none",
                 result |-> [ok |-> FALSE, value |-> ""]]
    /\ cleaned = [turn |-> FALSE, days_old |-> 0, failing |-> {}, result |-> "none"]

InitRepo(base, localPr, remotePr, trackedPr) ==
    /\ branches = [b \in BranchNames |-> IF b = "main" THEN <<base>>
                                         ELSE IF b = "pr" THEN localPr ELSE NoCommit]
    /\ remote = [b \in BranchNames |-> IF b = "main" THEN <<base>>
                                       ELSE IF b = "pr" THEN remotePr ELSE NoCommit]
    /\ tracking = [b \in BranchNames |-> IF b = "main" THEN <<base>>
                                         ELSE IF b = "pr" THEN trackedPr ELSE NoCommit]
    /\ \E h \in {"main", Detached}, ix \in Tree, wt \in Tree :
         orig = [head |-> h, at |-> IF h = Detached THEN <<base>> ELSE NoCommit,
                 index |-> ix, wt |-> wt]
    /\ patchFiles = {}
    /\ now = 0
    /\ InitTool

InitFrom(base, localPr, remotePr, trackedPr) ==
    /\ InitRepo(base, localPr, remotePr, trackedPr)
    /\ trunc = NoTruncation /\ retry = NoRetry
    /\ tags = {} /\ upstream = [b \in BranchNames |-> NoUpstream]

Init == InitFrom(BaseTree, NoCommit, NoCommit, NoCommit)

Next ==
    \/ \E p \in Procs : Enter(p)
    \/ \E p \in Procs : Drop(p)
    \/ \E p \in Procs : git_checkout_new_branch(p, "pr")
    \/ \E p \in Procs : git_stage_and_commit(p)
    \/ \E p \in Procs : Interrupt(p)
    \/ \E p \in Procs : git_fetch_main(p)
    \/ Tick

Spec == Init /\ [][Next]_vars

\* The reconciliation of the original checkout: one process runs the workflow
\* (or none of it) and then update_original_worktree_to_pr_branch, on a
\* repository where the PR branch may exist already, locally, on origin or
\* both, or may be gone from both while a stale origin/<pr> is left.
InitRecon ==
    \E localPr \in BOOLEAN, remotePr \in BOOLEAN, stalePr \in BOOLEAN :
        InitFrom(BaseTree, IF localPr THEN <<BaseTree, PrTree>> ELSE NoCommit,
                           IF remotePr THEN <<BaseTree, PrTree>> ELSE NoCommit,
                           IF remotePr \/ stalePr THEN <<BaseTree, PrTree>> ELSE NoCommit)

NextRecon ==
    \/ Enter("p1")
    \/ git_checkout_new_branch("p1", "pr")
    \/ git_stage_and_commit("p1")
    \/ git_push_branch("p1", "pr")
    \/ Drop("p1")
    \/ update_original_worktree_to_pr_branch("p1", "pr")
    \/ RemotePush

SpecRecon == InitRecon /\ [][NextRecon]_vars

\* A repository with up to three local branches, on main or on the PR branch,
\* whose branches have upstreams on origin, local upstreams or none, and where
\* origin has, or no longer has, the branches; no workspace is open.
InitBranches ==
    /\ \E m \in {<<BaseTree>>, <<BaseTree, PrTree>>},
          pr \in {NoCommit, <<BaseTree>>, <<BaseTree, PrTree>>},
          hm \in {NoCommit, <<BaseTree, PrTree>>, <<BaseTree, PrTree, BaseTree>>},
          rpr \in BOOLEAN, rhm \in BOOLEAN,
          upr \in {NoUpstream} \cup [remote : {"origin"}, branch : {"pr", "main"}]
                    \cup [remote : {"."}, branch : {"main", "heads/main"}],
          uhm \in {NoUpstream, [remote |-> "origin", branch |-> "heads/main"]},
          h \in {"main", "pr"} :
         /\ h = "pr" => pr # NoCommit
         /\ pr = NoCommit => upr = NoUpstream
         /\ hm = NoCommit => uhm = NoUpstream
         /\ branches = [b \in BranchNames |->
                          IF b = "main" THEN m ELSE IF b = "pr" THEN pr ELSE hm]
         /\ remote = [b \in BranchNames |->
                        IF b = "main" THEN m
                        ELSE IF b = "pr" THEN (IF rpr THEN <<BaseTree>> ELSE NoCommit)
                        ELSE (IF rhm THEN <<BaseTree, PrTree>> ELSE NoCommit)]
         /\ tracking = remote
         /\ upstream = [b \in BranchNames |->
                          IF b = "main" THEN [remote |-> "origin", branch |-> "main"]
                          ELSE IF b = "pr" THEN upr ELSE uhm]
         /\ orig = CheckoutAt(h, IF h = "main" THEN m ELSE pr)
    /\ patchFiles = {}
    /\ now = 0
    /\ trunc = NoTruncation /\ retry = NoRetry
    /\ tags = {}
    /\ InitTool

NextBranches ==
    \/ prune_merged_branches("p1")
    \/ \E child \in BranchNames : discover_parent_branch_call(child)

SpecBranches == InitBranches /\ [][NextBranches]_vars

\* The patch scratch directory as enter() may find it: up to MaxCacheFiles
\* files left there before the call, with well-formed and malformed names and
\* timestamps around the reuse window, on a checkout that is clean or dirty.
CacheNowSecs == 2 * PATCH_REUSE_THRESHOLD_SECS

CacheStamps == {CacheNowSecs - PATCH_REUSE_THRESHOLD_SECS - 1,
                CacheNowSecs - PATCH_REUSE_THRESHOLD_SECS,
                CacheNowSecs,
                CacheNowSecs + 1}

PatchKinds == {"staged", "unstaged"}

WellFormedNames == {PatchFileName(kind, ts) : kind \in PatchKinds, ts \in CacheStamps}

MalformedNames ==
    {PatchFileName("other", ts) : ts \in CacheStamps}
    \cup {<<Word("staged"), Dash, Digits(ts), Dot, Word("txt")>> : ts \in CacheStamps}
    \cup {<<Word("staged"), Dash, Digits(CacheNowSecs)>>,
          <<Word("staged"), Dot, Word("patch")>>,
          <<Dot, Word("patch")>>,
          <<Word("staged"), Dash, Word("x"), Dot, Word("patch")>>,
          <<Word("unstaged"), Dash, Dot, Word("patch")>>}

CachePatches == {{}, {[path |-> "A", pre |-> 1, post |-> MaxContent]}}

MaxCacheFiles == 2

\* the directories of at most n files, no two of one name
RECURSIVE DirsUpTo(_)
DirsUpTo(n) ==
    IF n = 0 THEN {{}}
    ELSE DirsUpTo(n - 1)
         \cup {d \cup {[name |-> nm, patch |-> c]} :
                    d \in DirsUpTo(n - 1), nm \in WellFormedNames \cup MalformedNames,
                    c \in CachePatches}

InitCache ==
    /\ branches = [b \in BranchNames |-> IF b = "main" THEN <<BaseTree>> ELSE NoCommit]
    /\ remote = branches
    /\ tracking = branches
    /\ \E ix \in {BaseTree, PrTree, [BaseTree EXCEPT !["A"] = 0]},
          wt \in {BaseTree, PrTree, [BaseTree EXCEPT !["U"] = 1], [PrTree EXCEPT !["U"] = 1]} :
         orig = [head |-> "main", at |-> NoCommit, index |-> ix, wt |-> wt]
    /\ patchFiles \in {d \in DirsUpTo(MaxCacheFiles) :
                          \A f \in d : \A g \in d : f.name = g.name => f = g}
    /\ now = CacheNowSecs * MsPerSec
    /\ InitTool
    /\ trunc = NoTruncation /\ retry = NoRetry
    /\ tags = {} /\ upstream = [b \in BranchNames |-> NoUpstream]

NextCache ==
    \/ EnterUnderFailure("p1")
    \/ Drop("p1")

SpecCache == InitCache /\ [][NextCache]_vars

\* The patch scratch directory as cleanup_old_patches and enter() may find it,
\* two days and some seconds after the epoch: up to MaxCacheFiles files stamped
\* around a day ago and around now, and files of other names.
InitCleanup ==
    /\ branches = [b \in BranchNames |-> IF b = "main" THEN <<BaseTree>> ELSE NoCommit]
    /\ remote = branches
    /\ tracking = branches
    /\ orig = CheckoutAt("main", <<BaseTree>>)
    /\ now = (2 * SecsPerDay + 2 * PATCH_REUSE_THRESHOLD_SECS) * MsPerSec
    /\ LET n == 2 * SecsPerDay + 2 * PATCH_REUSE_THRESHOLD_SECS
           names == {PatchFileName(kind, ts) :
                        kind \in PatchKinds,
                        ts \in {n - SecsPerDay - 1, n - SecsPerDay,
                                n - PATCH_REUSE_THRESHOLD_SECS, n + 1}}
                    \cup {<<Word("staged"), Dash, Digits(1), Dot, Word("txt")>>,
                          <<Word("staged"), Dot, Word("patch")>>,
                          <<Word("staged"), Dash, Word("x"), Dot, Word("patch")>>}
           files == {[name |-> nm, patch |-> {[path |-> "A", pre |-> 1, post |-> MaxContent]}] :
                        nm \in names}
       IN patchFiles \in {d \in SUBSET files : Cardinality(d) <= MaxCacheFiles}
    /\ InitTool
    /\ trunc = NoTruncation /\ retry = NoRetry
    /\ tags = {} /\ upstream = [b \in BranchNames |-> NoUpstream]

NextCleanup ==
    \/ \E days_old \in 1..MaxDaysOld : cleanup_old_patches(days_old)
    \/ Enter("p1")

SpecCleanup == InitCleanup /\ [][NextCleanup]_vars

\* One process whose workflow moves between the two checkouts, and a teardown
\* any step of which may fail.
EnterFromRoot(p) == cwd[p] = OrigRoot /\ Enter(p)

NextTeardown ==
    \/ EnterFromRoot("p1")
    \/ git_checkout_new_branch("p1", "pr")
    \/ WorkflowChdir("p1")
    \/ DropUnderFailure("p1")
    \/ Tick

SpecTeardown == Init /\ [][NextTeardown]_vars

\* =============================================================== properties
EnterErrorsAfterAdd == {"err_switch", "err_staged", "err_unstaged"}

\* the step of process p is a call of enter() that returns
EnterStep(p) ==
    /\ pc[p] \in {"idle", "torn"}
    /\ pc'[p] \in {"active", "failed"}
    /\ enterStatus'[p].status # "none"

\* C1: when enter() returns an error from a failure point after
\* `git worktree add` succeeded (switch chain exhausted, staged or unstaged
\* patch not applying), no secondary checkout is left registered and no
\* workspace directory is left on disk.
C1_CleanupTotality ==
    \A p \in Procs :
        (pc[p] = "failed" /\ enterStatus[p].status \in EnterErrorsAfterAdd)
        => /\ enterStatus[p].path \notin RegisteredPaths
           /\ enterStatus[p].path \notin dirs

\* C2: when a handle returned by a successful enter() is dropped, after any
\* workflow in the secondary checkout or none, teardown runs exactly once and
\* after it the secondary checkout is neither registered nor on disk.
C2_TeardownOnce ==
    /\ [](\A p \in Procs : /\ pc[p] = "torn" => teardowns[p] = 1
                           /\ pc[p] = "active" => teardowns[p] = 0)
    /\ [][\A p \in Procs :
            (pc[p] = "active" /\ pc'[p] = "torn")
            => /\ handle[p].path \notin {r.path : r \in worktrees'}
               /\ handle[p].path \notin dirs']_vars

C2_Witness ==
    \E p \in Procs : /\ pc[p] = "torn" /\ teardowns[p] = 1
                     /\ branches["pr"] # NoCommit /\ Len(branches["pr"]) = MaxCommits
                     /\ enterStatus[p].path \notin RegisteredPaths \cup dirs

\* C3: after a successful enter() the secondary checkout's index equals the
\* original checkout's index at capture time, and every tracked path has the
\* working-tree content it has in the original checkout.
C3_RoundTripFidelity ==
    [][\A p \in Procs :
         (EnterStep(p) /\ pc'[p] = "active")
         => LET sec == (CHOOSE r \in worktrees' : r.path = handle'[p].path).co
            IN /\ sec.index = orig.index
               /\ \A q \in Paths : orig.index[q] # 0 => sec.wt[q] = orig.wt[q]]_vars

\* C4: enter(), whether it succeeds or fails, leaves the original checkout's
\* working tree, index and checked-out branch as they were before the call.
C4_EnterLeavesOriginal ==
    [][\A p \in Procs : EnterStep(p) => orig' = orig]_vars

C4_Witness ==
    \E p \in Procs : /\ pc[p] = "active"
                     /\ StagedPatch(orig, branches) # {}
                     /\ TrackedDiff(orig) # {}

\* One process entering and dropping again and again, with or without the
\* workflow in between and with or without the clock advancing: the calls of
\* enter() considered are those that return a handle or fail at
\* `git worktree add`.
EnterForReentry(p) == Enter(p) /\ enterStatus'[p].status \notin EnterErrorsAfterAdd

NextReentry ==
    \/ EnterForReentry("p1")
    \/ Drop("p1")
    \/ git_checkout_new_branch("p1", "pr")
    \/ git_stage_and_commit("p1")
    \/ Tick

SpecReentry == Init /\ [][NextReentry]_vars

\* A repository with a tag named like the current branch: the workflow of one
\* process, entered while the name enter() records is not yet a branch.
InitTagged ==
    /\ InitRepo(BaseTree, NoCommit, NoCommit, NoCommit)
    /\ trunc = NoTruncation /\ retry = NoRetry
    /\ tags = {"main"} /\ upstream = [b \in BranchNames |-> NoUpstream]

EnterAmbiguous(p) ==
    /\ AbbrevRef(orig) \in BranchNames => branches[AbbrevRef(orig)] = NoCommit
    /\ Enter(p)

NextTagged ==
    \/ EnterAmbiguous("p1")
    \/ git_stage_and_commit("p1")
    \/ Drop("p1")
    \/ Tick

SpecTagged == InitTagged /\ [][NextTagged]_vars

\* The GitHub steps: calls of create_or_update_pull_request with either value
\* of update_pr and of ready for either head branch, while pull requests are
\* opened by the tool and closed on GitHub, and calls of github_list_issues.
NextPr ==
    \/ \E update_pr \in BOOLEAN, ready \in BOOLEAN, b \in BranchNames :
         create_or_update_pull_request(update_pr, ready, b)
    \/ \E b \in BranchNames : PullRequestClosed(b)
    \/ github_list_issues

\* on a repository at rest: a clean original checkout on main, no PR branch
InitPr ==
    /\ InitRepo(BaseTree, NoCommit, NoCommit, NoCommit)
    /\ orig.head = "main" /\ orig.index = BaseTree /\ orig.wt = BaseTree
    /\ trunc = NoTruncation /\ retry = NoRetry
    /\ tags = {} /\ upstream = [b \in BranchNames |-> NoUpstream]

SpecPr == InitPr /\ [][NextPr]_vars

\* truncate_utf8 on every string of up to MaxChars characters of one to four
\* bytes and every limit up to one byte more than the longest of them
InitTrunc ==
    /\ InitRepo(BaseTree, NoCommit, NoCommit, NoCommit)
    /\ orig.head = "main" /\ orig.index = BaseTree /\ orig.wt = BaseTree
    /\ tags = {} /\ upstream = [b \in BranchNames |-> NoUpstream]
    /\ retry = NoRetry
    /\ \E chars \in StrsUpTo(MaxChars), max_bytes \in 0..(4 * MaxChars + 1) :
         trunc = [s |-> Bytes(chars), max_bytes |-> max_bytes, out |-> <<>>, done |-> FALSE]

SpecTrunc == InitTrunc /\ [][truncate_utf8_call]_vars

\* A call of retry_with_backoff with an operation that returns one of two
\* values or fails with one of two errors at each attempt; every attempt
\* comes to an end (the request is answered or fails), hence the fairness.
InitRetry ==
    /\ InitRepo(BaseTree, NoCommit, NoCommit, NoCommit)
    /\ orig.head = "main" /\ orig.index = BaseTree /\ orig.wt = BaseTree
    /\ tags = {} /\ upstream = [b \in BranchNames |-> NoUpstream]
    /\ trunc = NoTruncation
    /\ \E script \in [1..MAX_RETRIES -> {"ok a", "ok b", "err a", "err b"}] :
         retry = [NoRetry EXCEPT !.script = script]

SpecRetry == InitRetry /\ [][retry_with_backoff]_vars /\ WF_vars(retry_with_backoff)

\* the step just taken was a call of enter() that got past
\* try_reuse_recent_patches
ReuseReturned == captured.by # "none" /\ enterStatus[captured.by].status # "panic"

\* the files named <kind>-<timestamp>.patch whose timestamp is at most
\* PATCH_REUSE_THRESHOLD_SECS seconds before now
InWindow(kind) ==
    {f \in patchFiles :
        \E ts \in 0..(now \div MsPerSec) :
            /\ f.name = PatchFileName(kind, ts)
            /\ (now \div MsPerSec) - ts <= PATCH_REUSE_THRESHOLD_SECS}

\* C12: try_reuse_recent_patches accepts a cached patch file exactly when
\* now - timestamp <= 10 seconds: for each kind it returns the bytes of a file
\* of that kind whose timestamp is now - 10 or later, and the empty byte
\* sequence when there is none (a file stamped now - 11 is not reused).
C12_ReuseWindow ==
    ReuseReturned =>
        \A kind \in PatchKinds :
            IF InWindow(kind) = {} THEN captured.reuse[kind] = NoPatch
            ELSE captured.reuse[kind] \in {f.patch : f \in InWindow(kind)}

\* enter() found a staged file stamped now - 10 and an unstaged file stamped
\* now - 11, both non-empty, and got the first and not the second
C12_Witness ==
    /\ ReuseReturned
    /\ \E f \in patchFiles, g \in patchFiles :
         /\ f.name = PatchFileName("staged", now \div MsPerSec - PATCH_REUSE_THRESHOLD_SECS)
         /\ g.name = PatchFileName("unstaged", now \div MsPerSec - PATCH_REUSE_THRESHOLD_SECS - 1)
         /\ f.patch # NoPatch /\ g.patch # NoPatch
         /\ captured.reuse.staged = f.patch
         /\ captured.reuse.unstaged = NoPatch

\* C13: the cache fallback is decided per half.  When enter() finds a fresh
\* file of one kind and none of the other, the half without a fresh file is
\* captured from the original checkout: the unstaged half is what
\* get_unstaged_patch_if_exists returns there, the staged half is the diff of
\* its index against HEAD.
C13_FallbackPerHalf ==
    (ReuseReturned /\ captured.fails = {}) =>
        /\ InWindow("unstaged") = {} =>
               captured.snap.unstaged = get_unstaged_patch_if_exists(orig)
        /\ InWindow("staged") = {} =>
               captured.snap.staged = StagedPatch(orig, branches)

\* a file whose name is not <kind>-<timestamp>.patch for a kind of patch
Malformed(f) ==
    ~ \E kind \in PatchKinds, ts \in 0..(CacheNowSecs + 1) : f.name = PatchFileName(kind, ts)

\* C14: whatever files the patch scratch directory holds,
\* try_reuse_recent_patches returns Ok and never fails because of a file name:
\* files without the .patch extension, without a second '-' separated field,
\* with a non-numeric timestamp field or with another prefix than staged- /
\* unstaged- are skipped and contribute nothing to the returned pair.  (Stated
\* for directories whose well-formed names carry no timestamp after now.)
C14_MalformedSkipped ==
    (/\ captured.by # "none"
     /\ \A f \in patchFiles : Malformed(f) \/ ParseTimestamp(f.name).ts <= now \div MsPerSec) =>
        /\ enterStatus[captured.by].status # "panic"
        /\ \A kind \in PatchKinds :
              captured.reuse[kind] # NoPatch =>
                  \E f \in patchFiles : ~Malformed(f) /\ StartsWith(f.name, kind)
                                          /\ f.patch = captured.reuse[kind]

DropStep(p) == pc[p] = "active" /\ pc'[p] = "torn"

\* C16: after the teardown of a live handle the process working directory is
\* original_root, the top-level directory enter() recorded, whichever
\* directory the workflow had changed into (the change of directory itself
\* succeeding).
C16_TeardownRestoresCwd ==
    [][\A p \in Procs :
        (DropStep(p) /\ "chdir" \notin dropFailed') => cwd'[p] = handle[p].orig_root
      ]_vars

\* torn down after a workflow that had created the PR branch inside the
\* secondary checkout, every step of the teardown succeeding
C16_Witness ==
    /\ pc["p1"] = "torn" /\ teardowns["p1"] = 1
    /\ dropFailed = {}
    /\ branches["pr"] # NoCommit
    /\ cwd["p1"] = OrigRoot

\* C17: the teardown never panics and never hands an error on: it always runs
\* to its end, each of its four steps swallows its own failure, and a step
\* that does not fail itself takes effect whichever other steps failed.
C17_TeardownSwallows ==
    [][\A p \in Procs :
        DropStep(p) =>
            /\ teardowns'[p] = teardowns[p] + 1
            /\ "chdir" \notin dropFailed' => cwd'[p] = handle[p].orig_root
            /\ "remove" \notin dropFailed' => handle[p].path \notin {r.path : r \in worktrees'}
            /\ "rmdir" \notin dropFailed' => handle[p].path \notin dirs'
      ]_vars

\* a teardown whose change of directory failed has still deregistered the
\* worktree and deleted its directory
C17_Witness ==
    /\ pc["p1"] = "torn"
    /\ dropFailed = {"chdir"}
    /\ cwd["p1"] # OrigRoot
    /\ worktrees = {} /\ dirs = {}

\* C18: the handle enter() returns records had_staged_changes, true iff the
\* staged patch enter() replayed was non-empty.
C18_HadStagedChanges ==
    \A p \in Procs :
        (captured.by = p /\ enterStatus[p].status = "ok") =>
            /\ "had_staged_changes" \in DOMAIN handle[p]
            /\ handle[p].had_staged_changes = (captured.snap.staged # NoPatch)

\* C19: a capture failure is fatal.  When one of the git commands that
\* capture the dirty state in a call of enter() exits with a status other than
\* 0 (the staged diff, the unstaged check and diff, the untracked listing),
\* enter() returns an error and replays nothing.
C19_CaptureFailureFatal ==
    (/\ ReuseReturned
     /\ \/ "untracked" \in captured.fails
        \/ captured.fails \cap {"staged", "unstaged"} # {}
                               /\ captured.reuse.staged = NoPatch
                               /\ captured.reuse.unstaged = NoPatch) =>
        /\ enterStatus[captured.by].status # "ok"
        /\ pc[captured.by] # "active"

\* C20: the snapshot enter() replays satisfies the DirtyStateSnapshot
\* invariant with respect to the original checkout at the call: its staged
\* patch is non-empty iff the index differs from HEAD, its unstaged patch is
\* non-empty iff the working tree differs from the index, also when the patch
\* cache holds a file written at most 10 seconds earlier.
C20_SnapshotInvariant ==
    ReuseReturned =>
        /\ captured.snap.staged # NoPatch <=> StagedPatch(orig, branches) # {}
        /\ captured.snap.unstaged # NoPatch <=> TrackedDiff(orig) # {}

\* C21: during the replay an untracked path whose source no longer exists in
\* original_root, or whose parent directory or copy fails, is skipped:
\* enter() still succeeds, and every other listed untracked file is copied
\* to the same path of the secondary checkout with the same content.
C21_MissingUntrackedSkipped ==
    (/\ ReuseReturned
     /\ captured.untracked \cap captured.fails # {}
     /\ enterStatus[captured.by].status \notin EnterErrorsAfterAdd) =>
        /\ enterStatus[captured.by].status = "ok"
        /\ pc[captured.by] = "active"
        /\ \A p \in captured.untracked \ captured.fails :
              SecOf(handle[captured.by].path).wt[p] = orig.wt[p]

\* enter() listed both files as untracked, could not copy A, and returned Ok
\* with U copied
C21_Witness ==
    /\ ReuseReturned
    /\ captured.untracked = Paths
    /\ captured.fails = {"A"}
    /\ enterStatus[captured.by].status = "ok"
    /\ SecOf(handle[captured.by].path).wt["U"] = orig.wt["U"]
    /\ SecOf(handle[captured.by].path).wt["A"] # orig.wt["A"]

\* C22: replaying the staged patch in enter() changes only the index of the
\* secondary checkout and no file of its working tree: afterwards the paths of
\* the staged patch are in the secondary checkout's staged diff, and every
\* file that neither the unstaged patch nor the untracked copy wrote is as in
\* HEAD.
C22_StagedReplayIndexOnly ==
    (ReuseReturned /\ enterStatus[captured.by].status = "ok"
                   /\ captured.snap.staged # NoPatch) =>
        LET sec == SecOf(handle[captured.by].path)
            head == TipTree(HeadCommit(sec, branches))
        IN /\ \A e \in captured.snap.staged :
                 /\ sec.index[e.path] = e.post
                 /\ e.path \in {d.path : d \in StagedPatch(sec, branches)}
           /\ \A q \in Paths \ ({d.path : d \in captured.snap.unstaged}
                                  \cup captured.untracked) :
                 sec.wt[q] = head[q]

\* enter() has replayed a staged patch and nothing else: the secondary
\* checkout's index differs from HEAD, its working tree does not
C22_Witness ==
    /\ ReuseReturned /\ enterStatus[captured.by].status = "ok"
    /\ captured.snap.staged # NoPatch
    /\ captured.snap.unstaged = NoPatch /\ captured.untracked = {}
    /\ SecOf(handle[captured.by].path).index # SecOf(handle[captured.by].path).wt
    /\ SecOf(handle[captured.by].path).wt = BaseTree

\* C23: the teardown does not touch the original checkout: after the drop of
\* the handle its working tree, index and checked-out branch are what they
\* were when the teardown started, and so are the branches of the repository.
C23_TeardownLeavesOriginal ==
    [][\A p \in Procs : DropStep(p) => (orig' = orig /\ branches' = branches)]_vars

\* torn down while the original checkout sat detached in the stopped rebase
\* of a reconciliation
C23_Witness ==
    /\ pc["p1"] = "torn" /\ teardowns["p1"] = 1
    /\ recon.result = "ok"
    /\ orig.head = Detached

\* the step is a call of update_original_worktree_to_pr_branch
ReconStep == recon.result = "none" /\ recon'.result # "none"

\* C24: if pr_branch exists neither as a local branch nor on the remote,
\* update_original_worktree_to_pr_branch returns an error (recorded in
\* app.errors) and creates no local branch named pr_branch.
C24_MissingBranchIsError ==
    [][(ReconStep /\ branches["pr"] = NoCommit /\ remote["pr"] = NoCommit) =>
          (recon'.result = "err" /\ branches'["pr"] = NoCommit)]_vars

\* C25: a reconciliation of an original checkout that has staged changes
\* preserves untracked files: every untracked file the original checkout held
\* before the call is there with the same content when the call has returned
\* Ok.
C25_ReconciliationKeepsUntracked ==
    [][(ReconStep /\ recon'.result = "ok" /\ git_has_staged_changes(orig, branches)) =>
          \A q \in UntrackedList(orig) : orig'.wt[q] = orig.wt[q]]_vars

\* the checkout has no staged, unstaged or untracked change
Clean(co, brs) == co.index = TipTree(HeadCommit(co, brs)) /\ co.wt = co.index

PrStep == gh'.calls = gh.calls + 1

\* C27: a call with update_pr = true when the head branch has no open pull
\* request, or when the `gh pr list` check fails, returns an error, adds an
\* entry to app.errors and does not issue `gh pr create`; `gh pr create` is
\* issued only by calls with update_pr = false.
C27_UpdateNeverCreates ==
    [][PrStep =>
        /\ (gh'.update_pr /\ (gh'.head \notin gh.open \/ gh'.list # "ok")) =>
               (gh'.result = "err" /\ gh'.added > 0 /\ \A i \in DOMAIN gh'.issued : gh'.issued[i] # "create")
        /\ (\E i \in DOMAIN gh'.issued : gh'.issued[i] = "create") => ~gh'.update_pr
      ]_vars

\* C28: truncate_utf8(s, max_bytes) is a prefix of s of at most max_bytes
\* bytes that ends on a character boundary of s, is s itself when s has at
\* most max_bytes bytes, and is otherwise the longest such prefix.
C28_TruncateUtf8 ==
    trunc.done =>
        LET s == trunc.s
            out == trunc.out
            n == Len(out)
            fits(m) == m <= trunc.max_bytes /\ (m = 0 \/ m = Len(s) \/ s[m + 1].k = 1)
        IN /\ n <= Len(s) /\ out = SubSeq(s, 1, n)
           /\ fits(n)
           /\ \A i \in 1..n : out[i].k = Utf8Len[out[i].ch] => (i = n \/ out[i + 1].k = 1)
           /\ (n > 0) => out[n].k = Utf8Len[out[n].ch]
           /\ Len(s) <= trunc.max_bytes => out = s
           /\ \A m \in (n + 1)..Len(s) : ~fits(m)

\* a string cut inside a multi-byte character's encoding: the limit falls
\* between the bytes of a character and the result ends before it
C28_Witness ==
    /\ trunc.done
    /\ trunc.max_bytes < Len(trunc.s)
    /\ trunc.s[trunc.max_bytes + 1].k > 1
    /\ Len(trunc.out) > 0 /\ Len(trunc.out) < trunc.max_bytes

C30_FallbackBranchHasNoHistory ==
    [][\A p \in Procs :
        LET b == AbbrevRef(orig)
            w == World(orig, NoCheckout, cwd[p])
        IN (/\ EnterStep(p) /\ enterStatus'[p].status = "ok"
            /\ ~SwitchForceOk(w, b) /\ ~SwitchTrackOk(w, b) /\ SwitchCreateOk(w, b)) =>
             /\ (CHOOSE r \in worktrees' : r.path = handle'[p].path).co.head = b
             /\ ~IsPrefix(HeadCommit(orig, branches), branches'[b])
      ]_vars

\* C31: when `git worktree add` fails, enter() returns an error and no handle,
\* none of its later steps has run (the working directory, the branches and
\* the original checkout are as before), and the call has left no worktree
\* registration and no workspace directory.
C31_AddFailureIsClean ==
    [][\A p \in Procs :
        (EnterStep(p) /\ enterStatus'[p].status = "err_add") =>
            /\ pc'[p] = "failed" /\ handle'[p] = NoHandle
            /\ cwd'[p] = cwd[p]
            /\ branches' = branches /\ orig' = orig
            /\ worktrees' = worktrees /\ dirs' = dirs
      ]_vars

\* an enter() that failed at `git worktree add` next to a live handle
C31_Witness ==
    \E p, q \in Procs :
        /\ pc[p] = "failed" /\ enterStatus[p].status = "err_add"
        /\ handle[p] = NoHandle /\ cwd[p] = OrigRoot
        /\ pc[q] = "active" /\ handle[q].path \in dirs

\* C32: git_stage_and_commit commits the index as it is when something is
\* staged, leaving the index and the working tree alone (unstaged and
\* untracked content stays uncommitted); stages the whole working tree first
\* when nothing is staged; and returns an error, committing nothing, when
\* there is nothing to commit.
C32_CommitsStagedSubset ==
    [][commitResult' # "none" =>
        LET path == handle["p1"].path
            sec == SecOf(path)
            after == (CHOOSE r \in worktrees' : r.path = path).co
            b == sec.head
            tip == TipTree(branches[b])
            staged == sec.index # tip
        IN /\ staged =>
                /\ commitResult' = "ok"
                /\ branches'[b] = Append(branches[b], sec.index)
                /\ after.index = sec.index /\ after.wt = sec.wt
           /\ (~staged /\ sec.wt # tip) =>
                /\ commitResult' = "ok"
                /\ branches'[b] = Append(branches[b], sec.wt)
                /\ after.index = sec.wt /\ after.wt = sec.wt
           /\ (~staged /\ sec.wt = tip) =>
                /\ commitResult' = "err"
                /\ branches' = branches /\ worktrees' = worktrees
      ]_vars

\* a commit of the staged subset that left other content of the working tree
\* uncommitted
C32_Witness ==
    /\ commitResult = "ok"
    /\ pc["p1"] = "active"
    /\ SecOf(handle["p1"].path).wt # SecOf(handle["p1"].path).index

\* the step is a call of git_fetch_main on main with staged changes
FetchStagedStep ==
    /\ \E p \in Procs : pc[p] = "idle" /\ pc'[p] \in {"idle", "failed"}
    /\ enterStatus' = enterStatus /\ ticks' = ticks
    /\ AbbrevRef(orig) = "main" /\ git_has_staged_changes(orig, branches)
    /\ (patchFiles' # patchFiles \/ orig' # orig \/ pc' # pc)

\* C33: when git_fetch_main on main with staged changes returns, Ok or Err,
\* each change that was staged or unstaged before the call is in the checkout
\* or in a patch file of the patches directory: the patches are written
\* before `git reset --hard HEAD` runs.
C33_PatchesBeforeReset ==
    [][FetchStagedStep =>
        \A q \in Paths :
          /\ orig.index[q] # TipTree(HeadCommit(orig, branches))[q] =>
                \/ orig'.index[q] = orig.index[q]
                \/ \E f \in patchFiles' : \E e \in f.patch :
                       e.path = q /\ e.post = orig.index[q]
          /\ (orig.index[q] # 0 /\ orig.wt[q] # orig.index[q]) =>
                \/ orig'.wt[q] = orig.wt[q]
                \/ \E f \in patchFiles' : \E e \in f.patch :
                       e.path = q /\ e.post = orig.wt[q]
      ]_vars

\* git_fetch_main has failed at the pull, after the reset: the checkout is
\* clean and the patch files hold a change
C33_Witness ==
    /\ \E p \in Procs : pc[p] = "failed" /\ enterStatus[p].status = "none"
    /\ orig.head = "main" /\ Clean(orig, branches)
    /\ \E f \in patchFiles : f.patch # {}

\* C34: prune_merged_branches never deletes the checked-out branch nor main;
\* it deletes another local branch only if the branch is the head of a merged
\* pull request or its remote tracking branch no longer exists on origin; a
\* branch that is not a merged head and whose tracking branch still exists on
\* origin is kept, and so is one with no tracking branch.
C34_PruneKeepsTrackedBranches ==
    [][pruned'.turn # pruned.turn =>
         \A b \in BranchNames :
            branches[b] # NoCommit =>
              /\ b \in {orig.head, "main"} => branches'[b] = branches[b]
              /\ branches'[b] = NoCommit =>
                    \/ b \in pruned'.merged
                    \/ /\ upstream[b].remote = "origin"
                       /\ remote[upstream[b].branch] = NoCommit
              /\ ( /\ b \notin pruned'.merged
                   /\ \/ upstream[b].remote = ""
                      \/ /\ upstream[b].remote = "origin"
                         /\ remote[upstream[b].branch] # NoCommit )
                   => branches'[b] = branches[b]]_vars

\* C35: discover_parent_branch(main, child) returns main when child is main;
\* otherwise the upstream of child if there is one and it is not main;
\* otherwise a local branch other than child that is an ancestor of child and
\* as near to child as any such branch; and main when no local branch is an
\* ancestor of child, or child does not exist.
C35_ParentBranch ==
    [][parentCall'.turn # parentCall.turn =>
         LET child == parentCall'.child
             r == parentCall'.result
             up == IF HasUpstream(branches, tracking, upstream, child)
                   THEN RefName(upstream[child].branch)
                   ELSE <<>>
             ancestors == {b \in BranchNames \ {child} :
                             /\ branches[b] # NoCommit /\ branches[child] # NoCommit
                             /\ IsPrefix(branches[b], branches[child])}
         IN IF child = "main" THEN r = <<"main">>
            ELSE IF up \notin {<<>>, <<"main">>} THEN r = up
            ELSE IF ancestors # {}
                 THEN \E b \in ancestors :
                        /\ r = RefName(b)
                        /\ \A c \in ancestors : Len(branches[c]) <= Len(branches[b])
                 ELSE r = <<"main">>]_vars

\* a call chose the nearer of two ancestors, neither being an upstream
C35_Witness ==
    /\ parentCall.turn /\ parentCall.child = "heads/main"
    /\ ~HasUpstream(branches, tracking, upstream, "heads/main")
    /\ branches["main"] = <<BaseTree>>
    /\ branches["pr"] = <<BaseTree, PrTree>>
    /\ branches["heads/main"] = <<BaseTree, PrTree, BaseTree>>
    /\ parentCall.result = <<"pr">>

\* C36: github_list_issues caches per process: once a call has returned
\* Ok(x), every later call returns Ok(x) without running gh again; a call that
\* fails returns an error and leaves the cache empty, so that the next call
\* runs gh again.
C36_IssuesCachedOnce ==
    [][issues'.calls = issues.calls + 1 =>
         /\ issues.cache # "none" =>
               /\ issues'.result = [ok |-> TRUE, value |-> issues.cache]
               /\ issues'.invocations = issues.invocations
               /\ issues'.cache = issues.cache
         /\ issues.cache = "none" => issues'.invocations = issues.invocations + 1
         /\ issues'.result.ok => issues'.cache = issues'.result.value
         /\ ~issues'.result.ok => issues'.cache = "none"]_vars

\* a call failed, the next ran gh again and got a listing, the third call was
\* answered from the cache
C36_Witness ==
    /\ issues.calls = 3 /\ issues.invocations = 2
    /\ issues.cache = "[1]" /\ issues.result = [ok |-> TRUE, value |-> "[1]"]

C38_CleanupRemovesOnlyOld ==
    [][(cleaned'.turn # cleaned.turn /\ cleaned'.days_old >= 1) =>
         LET nowSecs == now \div MsPerSec
             cutoff == nowSecs - cleaned'.days_old * SecsPerDay
         IN /\ \A f \in patchFiles \ patchFiles' :
                  /\ HasPatchExtension(f.name)
                  /\ ParseTimestamp(f.name).ok
                  /\ ParseTimestamp(f.name).ts < cutoff
                  /\ \A kind \in PatchKinds : f \notin FreshPatches(patchFiles, nowSecs, kind)
            /\ \A f \in patchFiles :
                  ( /\ cleaned'.failing # {} /\ f \notin cleaned'.failing
                    /\ HasPatchExtension(f.name) /\ ParseTimestamp(f.name).ok
                    /\ ParseTimestamp(f.name).ts < cutoff )
                  => f \notin patchFiles']_vars

\* C39: whenever enter() returns an error, at whichever step, the process
\* working directory is what it was before the call.
C39_FailedEnterKeepsCwd ==
    [][\A p \in Procs :
         (captured'.by = p /\ pc'[p] = "failed" /\ enterStatus'[p].status # "panic")
             => cwd'[p] = cwd[p]]_vars

\* C40: a cached patch file stamped after now makes try_reuse_recent_patches
\* neither panic nor wrap around: the call returns Ok and the file is not
\* used; and the cutoff of cleanup_old_patches, now - days_old * 86400, does
\* not underflow for any days_old: the call returns and the cutoff, hence the
\* timestamp of every file it removes, is before now.
C40_NoOverflow ==
    [][LET nowSecs == now \div MsPerSec
       IN /\ (captured'.by = "p1" /\ FutureStamped(patchFiles, nowSecs) # {}) =>
                /\ enterStatus'["p1"].status # "panic"
                /\ \A kind \in PatchKinds :
                      captured'.reuse[kind] # NoPatch =>
                          \E f \in patchFiles \ FutureStamped(patchFiles, nowSecs) :
                              f.patch = captured'.reuse[kind]
          /\ cleaned'.turn # cleaned.turn =>
                /\ cleaned'.result = "ok"
                /\ \A f \in patchFiles \ patchFiles' :
                      ParseTimestamp(f.name).ts < nowSecs]_vars

\* C11: idempotent re-entry.  In a sequence of enter() and drop of the handle,
\* repeated any number of times, at most one secondary checkout is registered
\* at any moment, none is registered after a drop, and no enter() fails on a
\* directory-name collision, also when it falls in the millisecond of the
\* previous one.
C11_IdempotentReentry ==
    /\ Cardinality(worktrees) <= 1
    /\ pc["p1"] \in {"idle", "torn"} => (worktrees = {} /\ dirs = {})
    /\ enterStatus["p1"].status # "err_add"

\* a second enter() in the millisecond of the first: the branch made by the
\* first round's workflow exists, the new secondary checkout is not on it
C11_Witness ==
    /\ pc["p1"] = "active"
    /\ now = 0
    /\ branches["pr"] # NoCommit
    /\ SecOf(handle["p1"].path).head = "main"
    /\ handle["p1"].path = WorktreePath(0)

\* what the checkout that update_original_worktree_to_pr_branch was called
\* on had as HEAD, and the PR branch's commit at that time
ReconHeadTree == TipTree(HeadCommit(recon.before, recon.brs))
ReconPrTree == TipTree(recon.brs["pr"])

\* the call was made after teardown, on a branch, with the PR branch present
\* locally and nothing newer on origin
ReconCalledOnLocalPr ==
    /\ recon.result # "none"
    /\ recon.regs = {}
    /\ recon.before.head # Detached
    /\ recon.brs["pr"] # NoCommit
    /\ recon.rem["pr"] \in {NoCommit, recon.brs["pr"]}

\* C5: whenever update_original_worktree_to_pr_branch returns Ok, the branch
\* checked out in the original checkout is the PR branch: not another branch,
\* not a detached HEAD, not a stopped rebase, whatever fetch and pull did.
C5_OkMeansOnPrBranch ==
    recon.result = "ok" => orig.head = "pr"

\* C6: reconciliation preservation.  Called on a checkout with a staged change
\* to one file a and an unstaged modification of another tracked file b, with
\* a PR branch that holds only a's change, the call returns Ok, the checkout
\* is on the PR branch, b still has the user's content and a the committed one.
C6_ReconciliationPreserves ==
    \A a \in Paths : \A b \in Paths \ {a} :
        ( /\ ReconCalledOnLocalPr
          /\ recon.before.index[a] # ReconHeadTree[a]
          /\ recon.before.wt[a] = recon.before.index[a]
          /\ recon.before.index[b] = ReconHeadTree[b]
          /\ recon.before.index[b] # 0
          /\ recon.before.wt[b] \notin {0, recon.before.index[b]}
          /\ ReconPrTree = [ReconHeadTree EXCEPT ![a] = recon.before.index[a]] )
        => ( /\ recon.result = "ok"
             /\ orig.head = "pr"
             /\ orig.wt[b] = recon.before.wt[b]
             /\ orig.wt[a] = ReconPrTree[a] )

\* C7: reconciliation discard.  Called on a checkout with nothing staged, with
\* unstaged modifications and untracked files that the PR branch's commit all
\* contains, the call returns Ok and leaves the checkout on the PR branch with
\* a clean tree: index and working tree are the PR commit, nothing untracked.
C7_ReconciliationDiscards ==
    ( /\ ReconCalledOnLocalPr
      /\ recon.before.index = ReconHeadTree
      /\ TrackedDiff(recon.before) # {}
      /\ UntrackedList(recon.before) # {}
      /\ ReconPrTree = recon.before.wt )
    => ( /\ recon.result = "ok"
         /\ orig.head = "pr"
         /\ orig.index = ReconPrTree
         /\ orig.wt = ReconPrTree )

\* C8: a file with a staged change that went to the PR branch and a further
\* unstaged change does not make reconciliation fail: the call returns Ok, the
\* PR branch is checked out, and a patch file on disk holds the unstaged change.
C8_ConflictLeavesPatchFile ==
    \A a \in Paths :
        ( /\ ReconCalledOnLocalPr
          /\ recon.before.index[a] # ReconHeadTree[a]
          /\ recon.before.wt[a] # recon.before.index[a]
          /\ ReconPrTree = [ReconHeadTree EXCEPT ![a] = recon.before.index[a]] )
        => ( /\ recon.result = "ok"
             /\ orig.head = "pr"
             /\ \E f \in patchFiles : \E e \in f.patch :
                    e.path = a /\ e.post = recon.before.wt[a] )

\* C9: on every way of leaving the Active state, a cancelled or exiting
\* process included, the secondary checkout ends deregistered and removed.
C9_TeardownOnEveryExit ==
    \A p \in Procs :
        pc[p] = "exited" => /\ handle[p].path \notin RegisteredPaths
                            /\ handle[p].path \notin dirs

\* C10: no two Active handles refer to the same secondary checkout path; an
\* enter() that computes the path of a checkout that exists fails.
C10_NoSharedPath ==
    \A p, q \in Procs :
        (p # q /\ pc[p] = "active" /\ pc[q] = "active") => handle[p].path # handle[q].path

C10_Witness ==
    \E p, q \in Procs :
        /\ p # q /\ pc[p] = "active" /\ pc[q] = "failed"
        /\ enterStatus[q] = [status |-> "err_add", path |-> handle[p].path]

====
